---------------------------- MODULE Spec2Model ----------------------------
(***************************************************************************)
(* infra-mapper: the per-host scan (InfraMapper._discover_all_servers,     *)
(* _discover_server), the SSH session scope (SSHConnectionManager.connect),*)
(* Docker discovery (DockerDiscoveryService), the Mermaid / HTML           *)
(* generators, the configuration file (ConfigManager, ServerCredentials)   *)
(* and the exit status of InfraMapper.run.                                 *)
(*                                                                         *)
(* Text is modelled as a sequence of one-character strings, so that        *)
(* parsing, stripping, truncation and sanitising are computed character by *)
(* character as the Python code does.                                      *)
(***************************************************************************)
EXTENDS Integers, Sequences, FiniteSets, TLC

VARIABLES
    servers,            \* List[ServerCredentials] handed to _discover_all_servers
    passwords,          \* InfraMapper._passwords: "host:port" -> password
    server_info_list,   \* the list _discover_all_servers accumulates
    idx,                \* position of the for loop over servers (1-based)
    pc,                 \* position of the running host scan
    info,               \* the ServerInfo being filled by _discover_server
    client,             \* SSHConnectionManager._client of the current manager
    exc,                \* exception in flight: <<>> or <<[type, msg]>>
    entered,            \* the current scan has entered ssh.connect()
    closes,             \* number of _client.close() calls of the current scan
    cmds,               \* commands executed on the remote host in this scan
    container_ids,      \* _get_all_containers: the split inventory listing
    pos,                \* _get_all_containers: loop position in container_ids
    containers,         \* _get_all_containers: the accumulated containers
    ssh,                \* the SSHConnectionManager of the current scan
    env,                \* what the remote host answered during this scan
    env_hist,           \* env of every finished scan, in scan order
    node_counter,       \* MermaidGenerator.node_counter
    node_map,           \* MermaidGenerator.node_map (insertion ordered)
    diagram,            \* last value returned by MermaidGenerator.generate
    report,             \* last value returned by HtmlGenerator.generate
    last_input,         \* the list last handed to MermaidGenerator.generate
    report_input,       \* the list last handed to HtmlGenerator.generate
    first_diagram,      \* input -> the diagram of its first synthesis, for
                        \* every input handed to MermaidGenerator.generate
    resynthesized,      \* the inputs synthesized again after another input
    calls,              \* thread -> its generate call on the one generator
    store,              \* the configuration file: <<>> or <<document>>
    saved,              \* the list last handed to ConfigManager.save_servers
    loaded,             \* what the last ConfigManager.load_servers call gave
    attempt,            \* the last ServerCredentials(...) call and its result
    exit_status,        \* exit status of the process: <<>> while it runs
    conns,              \* the SSHClient objects the manager has created
    scopes              \* the connect() scopes that are open, innermost last

scanvars == <<servers, passwords, server_info_list, idx, pc, info, client,
              exc, entered, closes, cmds, container_ids, pos, containers,
              ssh, env, env_hist>>
genvars  == <<node_counter, node_map, diagram, report, last_input,
              report_input, first_diagram, resynthesized, calls>>
cfgvars  == <<store, saved, loaded, attempt, exit_status>>
nestvars == <<conns, scopes>>
vars     == <<servers, passwords, server_info_list, idx, pc, info, client,
              exc, entered, closes, cmds, container_ids, pos, containers,
              ssh, env, env_hist, node_counter, node_map, diagram, report,
              last_input, report_input, first_diagram, resynthesized, calls,
              store, saved, loaded, attempt, exit_status, conns, scopes>>

-----------------------------------------------------------------------------
(* Bounds of the model *)

MaxHosts == 2
MaxIds == 3

-----------------------------------------------------------------------------
(* Text helpers *)

Digits == {"0", "1", "2", "3", "4", "5", "6", "7", "8", "9"}

DigitVal(c) ==
    CASE c = "0" -> 0 [] c = "1" -> 1 [] c = "2" -> 2 [] c = "3" -> 3
      [] c = "4" -> 4 [] c = "5" -> 5 [] c = "6" -> 6 [] c = "7" -> 7
      [] c = "8" -> 8 [] c = "9" -> 9

RECURSIVE DigitsVal(_)
DigitsVal(s) ==
    IF s = <<>> THEN 0
    ELSE 10 * DigitsVal(SubSeq(s, 1, Len(s) - 1)) + DigitVal(s[Len(s)])

AllDigits(s) == s # <<>> /\ \A i \in 1..Len(s) : s[i] \in Digits

\* Python int(text): an optional sign followed by decimal digits; anything
\* else raises ValueError (ok = FALSE).
PyInt(s) ==
    IF AllDigits(s) THEN [ok |-> TRUE, val |-> DigitsVal(s)]
    ELSE IF s # <<>> /\ s[1] \in {"+", "-"} /\ AllDigits(Tail(s))
         THEN [ok |-> TRUE,
               val |-> IF s[1] = "-" THEN 0 - DigitsVal(Tail(s))
                       ELSE DigitsVal(Tail(s))]
         ELSE [ok |-> FALSE, val |-> 0]

\* str(n) for an integer
RECURSIVE PyStr(_)
PyStr(n) ==
    LET d == <<"0", "1", "2", "3", "4", "5", "6", "7", "8", "9">>
    IN  IF n < 0 THEN <<"-">> \o PyStr(0 - n)
        ELSE IF n < 10 THEN <<d[n + 1]>>
        ELSE PyStr(n \div 10) \o <<d[(n % 10) + 1]>>

\* position of the first occurrence of character c in s, 0 when absent
RECURSIVE IndexOf(_, _)
IndexOf(s, c) ==
    IF s = <<>> THEN 0
    ELSE IF s[1] = c THEN 1
    ELSE LET r == IndexOf(Tail(s), c) IN IF r = 0 THEN 0 ELSE r + 1

\* text.lstrip(c)
RECURSIVE LStrip(_, _)
LStrip(s, c) ==
    IF s # <<>> /\ s[1] = c THEN LStrip(Tail(s), c) ELSE s

Min(a, b) == IF a < b THEN a ELSE b

\* the element of a one-element set; Only({e : v \in {x}}) is e with v bound
\* to the value of x
Only(S) == CHOOSE v \in S : TRUE

-----------------------------------------------------------------------------
(* Exceptions: a raised exception is [type, msg]; msg is what str(e) gives, *)
(* kept as the format string, its argument and the embedded message.        *)

Base(t) ==
    CASE t = "FileNotFoundError" -> "OSError"
      [] t = "AuthenticationException" -> "SSHException"
      [] t = "SSHConnectionError" -> "InfraMapperError"
      [] t = "DockerNotFoundError" -> "InfraMapperError"
      [] t = "DockerPermissionError" -> "InfraMapperError"
      [] t = "JSONDecodeError" -> "ValueError"
      [] t = "ValidationError" -> "ValueError"
      [] t = "ConnectionError" -> "OSError"
      [] t = "ConfigurationError" -> "InfraMapperError"
      [] t = "KeyboardInterrupt" -> "BaseException"
      [] t = "Exception" -> "BaseException"
      [] OTHER -> "Exception"

\* isinstance(e, cls) for an exception of type t
RECURSIVE IsA(_, _)
IsA(t, cls) ==
    IF t = cls THEN TRUE
    ELSE IF t = "BaseException" THEN FALSE
    ELSE IsA(Base(t), cls)

Msg(fmt, arg, cause) == [fmt |-> fmt, arg |-> arg, cause |-> cause]

Raise(type, msg) == <<[type |-> type, msg |-> msg]>>

NoException == <<>>

-----------------------------------------------------------------------------
(* Text constants of the code *)

COMPOSE_PROJECT ==
    <<"c", "o", "m", ".", "d", "o", "c", "k", "e", "r", ".", "c", "o", "m",
      "p", "o", "s", "e", ".", "p", "r", "o", "j", "e", "c", "t">>

PERMISSION_DENIED ==
    <<"p", "e", "r", "m", "i", "s", "s", "i", "o", "n", " ",
      "d", "e", "n", "i", "e", "d">>

DEFAULT_HOST_IP == <<"0", ".", "0", ".", "0", ".", "0">>

TCP == <<"t", "c", "p">>
UDP == <<"u", "d", "p">>

\* str.lower() on the letters the modelled stderr texts use
LowerChar(c) ==
    CASE c = "P" -> "p" [] c = "D" -> "d" [] c = "E" -> "e" [] c = "N" -> "n"
      [] c = "I" -> "i" [] c = "R" -> "r" [] c = "M" -> "m" [] c = "S" -> "s"
      [] c = "O" -> "o" [] OTHER -> c

Lower(s) == [i \in 1..Len(s) |-> LowerChar(s[i])]

\* needle in text
Contains(text, needle) ==
    \E i \in 1..(Len(text) - Len(needle) + 1) :
        SubSeq(text, i, i + Len(needle) - 1) = needle

-----------------------------------------------------------------------------
(* Data model: models/port_mapping.py, container.py, docker_stack.py,      *)
(* server.py                                                                *)

PortMapping(container_port, host_port, protocol, host_ip) ==
    [container_port |-> container_port, host_port |-> host_port,
     protocol |-> protocol, host_ip |-> host_ip]

\* labels is a dict: a set of <<key, value>> pairs with pairwise distinct keys
Container(container_id, name, image, status, ports, networks, labels) ==
    [container_id |-> container_id, name |-> name, image |-> image,
     status |-> status, ports |-> ports, networks |-> networks,
     labels |-> labels]

is_compose_managed(container) ==
    \E kv \in container.labels : kv[1] = COMPOSE_PROJECT

compose_project(container) ==
    (CHOOSE kv \in container.labels : kv[1] = COMPOSE_PROJECT)[2]

DockerStack(project_name, cs) ==
    [project_name |-> project_name, containers |-> cs]

ServerCredentials(hostname, username, auth_method, ssh_key_path, port) ==
    [hostname |-> hostname, username |-> username,
     auth_method |-> auth_method, ssh_key_path |-> ssh_key_path,
     port |-> port]

\* ServerInfo(credentials=...): the defaults of the other fields
ServerInfo(credentials) ==
    [credentials |-> credentials, docker_stacks |-> <<>>,
     standalone_containers |-> <<>>, connection_status |-> "not_connected",
     error_message |-> <<>>]

RECURSIVE SumLen(_)
SumLen(stacks) ==
    IF stacks = <<>> THEN 0
    ELSE Len(stacks[1].containers) + SumLen(Tail(stacks))

total_containers(si) ==
    SumLen(si.docker_stacks) + Len(si.standalone_containers)

is_connected(si) == si.connection_status = "success"

-----------------------------------------------------------------------------
(* DockerDiscoveryService._parse_container_data                             *)
(* An inspect record is [keys, Id, Name, Image, Status, Labels, Ports]:     *)
(* keys names the required fields that are present, Labels is a sequence    *)
(* holding the label dict or empty for null, Ports is the port-binding map  *)
(* in document order, a sequence of <<"port/proto", bindings>>; a binding   *)
(* is [has, HostIp, HostPort], has naming the keys it holds.                *)

ShortIdLen == 12

\* the first binding without a usable host port ends the entry
RECURSIVE ParseBindings_Break(_, _, _)
ParseBindings_Break(bindings, container_port, protocol) ==
    IF bindings = <<>> THEN <<>>
    ELSE LET b == bindings[1]
             hp == PyInt(b.HostPort)
         IN  IF "HostPort" \notin b.has \/ ~hp.ok
             THEN <<>>
             ELSE <<PortMapping(container_port, hp.val, protocol,
                                IF "HostIp" \in b.has THEN b.HostIp
                                ELSE DEFAULT_HOST_IP)>>
                  \o ParseBindings_Break(Tail(bindings), container_port,
                                         protocol)

\* one entry of NetworkSettings.Ports: the PortMappings its bindings give
RECURSIVE ParseBindings(_, _, _)
ParseBindings(bindings, container_port, protocol) ==
    IF bindings = <<>> THEN <<>>
    ELSE LET b == bindings[1]
             hp == PyInt(b.HostPort)
             rest == ParseBindings(Tail(bindings), container_port, protocol)
         IN  IF "HostPort" \notin b.has \/ ~hp.ok
             THEN rest
             ELSE <<PortMapping(container_port, hp.val, protocol,
                                IF "HostIp" \in b.has THEN b.HostIp
                                ELSE DEFAULT_HOST_IP)>> \o rest

RECURSIVE ParsePorts(_)
ParsePorts(port_bindings) ==
    IF port_bindings = <<>> THEN <<>>
    ELSE LET key == port_bindings[1][1]
             bindings == port_bindings[1][2]
             slash == IndexOf(key, "/")
             port_str == IF slash > 0 THEN SubSeq(key, 1, slash - 1) ELSE key
             protocol == IF slash > 0 THEN SubSeq(key, slash + 1, Len(key))
                         ELSE TCP
             cp == PyInt(port_str)
             rest == ParsePorts(Tail(port_bindings))
         IN  IF bindings = <<>> \/ ~cp.ok
             THEN rest
             ELSE ParseBindings(bindings, cp.val, protocol) \o rest

RequiredKeys == {"Id", "Name", "Config", "Image", "State"}

\* [ok |-> FALSE] stands for the KeyError of a missing required field
_parse_container_data(data) ==
    IF ~(RequiredKeys \subseteq data.keys)
    THEN [ok |-> FALSE, container |-> <<>>]
    ELSE [ok |-> TRUE,
          container |->
              <<Container(SubSeq(data.Id, 1, Min(ShortIdLen, Len(data.Id))),
                          LStrip(data.Name, "/"),
                          data.Image,
                          data.Status,
                          ParsePorts(data.Ports),
                          data.Networks,
                          IF data.Labels = <<>> THEN {} ELSE data.Labels[1])>>]

-----------------------------------------------------------------------------
(* DockerDiscoveryService.discover_containers, lines 42-61: grouping        *)

\* stacks_dict is an insertion-ordered dict: a sequence of
\* <<project, containers>> with pairwise distinct projects
StackIndex(stacks_dict, project) ==
    IF \E i \in 1..Len(stacks_dict) : stacks_dict[i][1] = project
    THEN CHOOSE i \in 1..Len(stacks_dict) : stacks_dict[i][1] = project
    ELSE 0

RECURSIVE GroupContainers(_, _, _)
GroupContainers(cs, stacks_dict, standalone) ==
    IF cs = <<>>
    THEN [stacks |-> [i \in 1..Len(stacks_dict) |->
                        DockerStack(stacks_dict[i][1], stacks_dict[i][2])],
          standalone |-> standalone]
    ELSE LET c == cs[1] IN
         IF is_compose_managed(c)
         THEN LET project == compose_project(c)
                  i == StackIndex(stacks_dict, project)
                  d1 == IF i = 0 THEN Append(stacks_dict, <<project, <<>>>>)
                        ELSE stacks_dict
                  j == StackIndex(d1, project)
              IN  GroupContainers(Tail(cs),
                      [d1 EXCEPT ![j] = <<project, Append(d1[j][2], c)>>],
                      standalone)
         ELSE GroupContainers(Tail(cs), stacks_dict, Append(standalone, c))

\* `if project not in stacks_dict` left out: every labelled container
\* starts its project's list afresh, so a group keeps its last member only
discover_group_Reset(cs) ==
    LET g == GroupContainers(cs, <<>>, <<>>)
    IN  [stacks |-> [i \in 1..Len(g.stacks) |->
                       DockerStack(g.stacks[i].project_name,
                           <<g.stacks[i].containers[
                                 Len(g.stacks[i].containers)]>>)],
         standalone |-> g.standalone]

\* the else is left out: a labelled container is listed as ungrouped as well
discover_group_Both(cs) ==
    [stacks |-> GroupContainers(cs, <<>>, <<>>).stacks, standalone |-> cs]

discover_group(cs) == GroupContainers(cs, <<>>, <<>>)

-----------------------------------------------------------------------------
(* The configured hosts and the remote hosts' possible answers              *)

H1 == <<"h", "1">>
H2 == <<"h", "2">>
H3 == <<"h", "3">>
H4 == <<"[", ":", ":", "1", "]">>
ROOT == <<"r", "o", "o", "t">>
KEY_FILE == <<"i", "d">>
SECRET == <<"p", "w">>

SshPort == 22

CredPool ==
    {ServerCredentials(H1, ROOT, "key", <<KEY_FILE>>, SshPort),
     ServerCredentials(H2, ROOT, "password", <<>>, SshPort)}

server_key(creds) == creds.hostname \o <<":">> \o PyStr(creds.port)

\* dict.get(key): <<>> for None, <<value>> otherwise
DictGet(d, key) ==
    IF \E kv \in d : kv[1] = key
    THEN <<(CHOOSE kv \in d : kv[1] = key)[2]>>
    ELSE <<>>

\* _collect_passwords / _prompt_servers store one entry per password host,
\* under "hostname:port"; the user may have typed nothing
PasswordDicts(srvs) ==
    LET keys == {server_key(srvs[i]) :
                    i \in {j \in 1..Len(srvs) :
                              srvs[j].auth_method = "password"}}
    IN  IF keys = {} THEN {{}}
        ELSE {{<<k, p>> : k \in keys} : p \in {<<>>, SECRET}}

STDERR_PERMISSION ==
    <<"P", "e", "r", "m", "i", "s", "s", "i", "o", "n", " ",
      "d", "e", "n", "i", "e", "d">>
STDERR_NOT_FOUND ==
    <<"n", "o", "t", " ", "f", "o", "u", "n", "d">>

ProbeStderrs == {STDERR_PERMISSION, STDERR_NOT_FOUND}

ExitCodes == {0, 1}

\* the k-th identifier `docker ps` lists
ListedId(k) == <<"c", PyStr(k)[1]>>

\* the 64-character Id of the inspect record, shortened to 14 characters
FullId(id) ==
    id \o <<"a", "b", "c", "d", "e", "f", "0", "1", "2", "3", "4", "5">>

WEB == <<"w", "e", "b">>
DB == <<"d", "b">>
IMAGE == <<"i", "m", "g">>
RUNNING == <<"r", "u", "n">>
IPV6_ANY == <<":", ":">>

Binding(has, host_ip, host_port) ==
    [has |-> has, HostIp |-> host_ip, HostPort |-> host_port]

PORTS_NONE == <<>>
PORTS_WEB ==
    << << <<"8", "0", "/", "t", "c", "p">>,
          << Binding({"HostIp", "HostPort"}, DEFAULT_HOST_IP,
                     <<"8", "0", "8", "0">>),
             Binding({"HostIp", "HostPort"}, IPV6_ANY,
                     <<"8", "0", "8", "0">>) >> >> >>
\* an unpublished port, and a port whose first binding has no HostPort, whose
\* second has an empty one and whose third is bound to 5353
PORTS_DB ==
    << << <<"5", "4", "3", "2", "/", "t", "c", "p">>, <<>> >>,
       << <<"5", "3", "/", "u", "d", "p">>,
          << Binding({"HostIp"}, DEFAULT_HOST_IP, <<>>),
             Binding({"HostIp", "HostPort"}, DEFAULT_HOST_IP, <<>>),
             Binding({"HostIp", "HostPort"}, DEFAULT_HOST_IP,
                     <<"5", "3", "5", "3">>) >> >> >>

InspectRecord(keys, id, labels, ports) ==
    [keys |-> keys, Id |-> FullId(id), Name |-> <<"/", "n">> \o Tail(id),
     Image |-> IMAGE, Status |-> RUNNING, Labels |-> labels,
     Networks |-> <<>>, Ports |-> ports]

\* what `docker inspect <id>` may print for a running container
InspectRecords(id) ==
    {InspectRecord(RequiredKeys, id, <<>>, PORTS_NONE),
     InspectRecord(RequiredKeys, id, <<{<<COMPOSE_PROJECT, WEB>>}>>, PORTS_WEB),
     InspectRecord(RequiredKeys, id, <<{<<COMPOSE_PROJECT, DB>>}>>, PORTS_DB)}

\* stdout of `docker ps --format '{{.ID}}'`, split at newlines
RECURSIVE Listing(_)
Listing(n) == IF n = 0 THEN <<>> ELSE Append(Listing(n - 1), ListedId(n))

BLANK_LINE == <<" ">>

\* every line is taken for a blank one
StripLine_Blank(line) == <<>>

\* a blank line is kept as it is
StripLine_Keep(line) == line

\* str.strip() of one line: the modelled lines are identifiers or blanks
StripLine(line) == IF \A i \in 1..Len(line) : line[i] = " " THEN <<>> ELSE line

\* stdout.strip() on the split output: blank lines at both ends are dropped
RECURSIVE StripOutput(_)
StripOutput(lines) ==
    IF lines = <<>> THEN <<>>
    ELSE IF StripLine(lines[1]) = <<>> THEN StripOutput(Tail(lines))
    ELSE IF StripLine(lines[Len(lines)]) = <<>>
         THEN StripOutput(SubSeq(lines, 1, Len(lines) - 1))
         ELSE lines

\* identifiers listed over the scans finished so far
RECURSIVE Listed(_)
Listed(hist) ==
    IF hist = <<>> THEN 0
    ELSE Cardinality({i \in 1..Len(hist[1]) : hist[1][i].op = "inspect"})
         + Listed(Tail(hist))

Ev(op, res, data) == [op |-> op, res |-> res, data |-> data]

ExitStr(exit_code) == IF exit_code = 0 THEN "exit 0" ELSE "exit nonzero"

-----------------------------------------------------------------------------
(* SSHConnectionManager                                                     *)

\* SSHConnectionManager.__init__; key_path and password are <<>> for None
SSHConnectionManager(hostname, username, key_path, port, password) ==
    [hostname |-> hostname, username |-> username, key_path |-> key_path,
     port |-> port, password |-> password]

NoManager == SSHConnectionManager(<<>>, <<>>, <<>>, 0, <<>>)

\* `if self.password`: None and "" are both false
Truthy(opt) == opt # <<>> /\ opt[1] # <<>>

\* what paramiko may raise while the key is read and the client connects
ConnectErrors(mgr) ==
    IF Truthy(mgr.password)
    THEN {"AuthenticationException", "SSHException", "TimeoutError"}
    ELSE {"FileNotFoundError", "AuthenticationException", "SSHException",
          "TimeoutError"}

\* connect(), lines 91-108: the except clauses around the yield, applied to
\* the exception e raised before the yield or thrown in by the with body
ConnectExcept(mgr, e) ==
    IF e = NoException THEN NoException
    ELSE IF IsA(e[1].type, "FileNotFoundError")
    THEN Raise("SSHConnectionError",
               Msg("SSH key file not found: {key_path}",
                   IF mgr.key_path = <<>> THEN <<>> ELSE mgr.key_path[1],
                   <<>>))
    ELSE IF IsA(e[1].type, "AuthenticationException")
    THEN Raise("SSHConnectionError",
               Msg("Authentication failed for {username}@{hostname}",
                   mgr.hostname, <<>>))
    ELSE IF IsA(e[1].type, "SSHConnectionError")
    THEN e
    ELSE IF IsA(e[1].type, "SSHException")
    THEN Raise("SSHConnectionError",
               Msg("SSH error connecting to {hostname}: {e}",
                   mgr.hostname, <<e[1].msg>>))
    ELSE Raise("SSHConnectionError",
               Msg("Failed to connect to {hostname}: {e}",
                   mgr.hostname, <<e[1].msg>>))

\* the finally clause left out: the client is never closed
ConnectFinally_Leak(c, n) == [client |-> c, closes |-> n]

\* connect(), lines 109-112: the finally clause; [client, closes]
ConnectFinally(c, n) ==
    IF c # "None" THEN [client |-> "None", closes |-> n + 1]
    ELSE [client |-> c, closes |-> n]

\* execute_command, lines 141-144: any failure of the command is re-raised
ExecuteFailed(mgr) ==
    Raise("SSHConnectionError",
          Msg("Failed to execute command on {hostname}: {e}", mgr.hostname,
              <<Msg("timed out", <<>>, <<>>)>>))

Cmd(command, arg) == [command |-> command, arg |-> arg]

-----------------------------------------------------------------------------
(* InfraMapper._discover_server, lines 355-368: the except clauses          *)

\* the handlers set the status and leave the message unset
DiscoverServerExcept_NoMessage(si, e) ==
    IF e = NoException THEN si
    ELSE IF IsA(e[1].type, "SSHConnectionError")
    THEN [si EXCEPT !.connection_status = "ssh_failed"]
    ELSE IF IsA(e[1].type, "DockerNotFoundError")
    THEN [si EXCEPT !.connection_status = "no_docker"]
    ELSE [si EXCEPT !.connection_status = "failed"]

DiscoverServerExcept(si, e) ==
    IF e = NoException THEN si
    ELSE IF IsA(e[1].type, "SSHConnectionError")
    THEN [si EXCEPT !.connection_status = "ssh_failed",
                    !.error_message = <<e[1].msg>>]
    ELSE IF IsA(e[1].type, "DockerNotFoundError")
    THEN [si EXCEPT !.connection_status = "no_docker",
                    !.error_message = <<e[1].msg>>]
    ELSE [si EXCEPT !.connection_status = "failed",
                    !.error_message = <<e[1].msg>>]

\* only a permission problem stops the discovery
VerifyDockerAvailable_Lenient(mgr, exit_code, stderr) ==
    IF exit_code # 0 /\ Contains(Lower(stderr), PERMISSION_DENIED)
    THEN Raise("DockerPermissionError",
               Msg("Docker permission denied on {hostname}.",
                   mgr.hostname, <<>>))
    ELSE NoException

\* DockerDiscoveryService._verify_docker_available, lines 65-82
VerifyDockerAvailable(mgr, exit_code, stderr) ==
    IF exit_code # 0
    THEN IF Contains(Lower(stderr), PERMISSION_DENIED)
         THEN Raise("DockerPermissionError",
                    Msg("Docker permission denied on {hostname}.",
                        mgr.hostname, <<>>))
         ELSE Raise("DockerNotFoundError",
                    Msg("Docker not found on {hostname}.", mgr.hostname, <<>>))
    ELSE NoException

-----------------------------------------------------------------------------
(* The scan: _discover_all_servers calls _discover_server for each host.    *)
(* pc: start -> connect -> probe -> inventory -> inspect -> classify ->     *)
(* exit -> catch -> return -> start ... -> done                             *)

\* the threads that may call generate on the generator of the process
Threads == {1, 2}

\* a generate call: where it stands, its argument, the position of its loop
\* over servers and its local list of lines
Frame(st, srvs, k, lines) == [st |-> st, servers |-> srvs, k |-> k, lines |-> lines]

NoCall == Frame("idle", <<>>, 0, <<>>)

GenInit ==
    /\ node_counter = 0
    /\ node_map = <<>>
    /\ diagram = <<>>
    /\ report = <<>>
    /\ last_input = <<>>
    /\ report_input = <<>>
    /\ first_diagram = <<>>
    /\ resynthesized = {}
    /\ calls = [t \in Threads |-> NoCall]

\* no SSHClient created, no scope open
NestInit ==
    /\ conns = <<>>
    /\ scopes = <<>>

\* no configuration file, nothing saved, loaded or constructed yet
CfgInit ==
    /\ store = <<>>
    /\ saved = <<>>
    /\ loaded = <<>>
    /\ attempt = <<>>
    /\ exit_status = <<>>

Init ==
    /\ servers \in UNION {[1..n -> CredPool] : n \in 1..MaxHosts}
    /\ passwords \in PasswordDicts(servers)
    /\ server_info_list = <<>>
    /\ idx = 1
    /\ pc = "start"
    /\ info = ServerInfo(ServerCredentials(<<>>, <<>>, "key", <<>>, SshPort))
    /\ client = "None"
    /\ exc = NoException
    /\ entered = FALSE
    /\ closes = 0
    /\ cmds = <<>>
    /\ container_ids = <<>>
    /\ pos = 1
    /\ containers = <<>>
    /\ ssh = NoManager
    /\ env = <<>>
    /\ env_hist = <<>>
    /\ GenInit
    /\ NestInit
    /\ CfgInit

\* _discover_server, lines 322-344: the record, the credentials, the manager
BeginScan ==
    /\ pc = "start"
    /\ idx <= Len(servers)
    /\ LET creds == servers[idx]
           password == DictGet(passwords, server_key(creds))
       IN  IF creds.auth_method = "password" /\ ~Truthy(password)
           THEN /\ info' = [ServerInfo(creds) EXCEPT
                              !.connection_status = "ssh_failed",
                              !.error_message =
                                  <<Msg("No password provided", <<>>, <<>>)>>]
                /\ ssh' = NoManager
                /\ pc' = "return"
           ELSE /\ info' = ServerInfo(creds)
                /\ ssh' = IF creds.auth_method = "password"
                          THEN SSHConnectionManager(creds.hostname,
                                   creds.username, <<>>, creds.port, password)
                          ELSE SSHConnectionManager(creds.hostname,
                                   creds.username, creds.ssh_key_path,
                                   creds.port, <<>>)
                /\ pc' = "connect"
    /\ client' = "None"
    /\ exc' = NoException
    /\ entered' = FALSE
    /\ closes' = 0
    /\ cmds' = <<>>
    /\ container_ids' = <<>>
    /\ pos' = 1
    /\ containers' = <<>>
    /\ env' = <<>>
    /\ UNCHANGED <<servers, passwords, server_info_list, idx, env_hist>>
    /\ UNCHANGED <<genvars, cfgvars, nestvars>>

\* connect(), lines 52-89, up to the yield: the client is created, then the
\* key is read and the connection made, or one of them raises
Connect ==
    /\ pc = "connect"
    /\ entered' = TRUE
    /\ client' = "client"
    /\ IF ~Truthy(ssh.password) /\ ssh.key_path = <<>>
       THEN /\ exc' = Raise("SSHConnectionError",
                            Msg("No authentication method provided.",
                                <<>>, <<>>))
            /\ env' = Append(env, Ev("connect", "SSHConnectionError", <<>>))
            /\ pc' = "exit"
       ELSE \/ /\ exc' = NoException
               /\ env' = Append(env, Ev("connect", "ok", <<>>))
               /\ pc' = "probe"
            \/ \E t \in ConnectErrors(ssh) :
               /\ exc' = Raise(t, Msg(t, <<>>, <<>>))
               /\ env' = Append(env, Ev("connect", t, <<>>))
               /\ pc' = "exit"
    /\ UNCHANGED <<servers, passwords, server_info_list, idx, info, closes,
                   cmds, container_ids, pos, containers, ssh, env_hist>>
    /\ UNCHANGED <<genvars, cfgvars, nestvars>>

\* discover_containers, line 37, _verify_docker_available: the probe
Probe ==
    /\ pc = "probe"
    /\ client # "None"
    /\ cmds' = Append(cmds, Cmd("sudo docker --version", <<>>))
    /\ \/ /\ exc' = ExecuteFailed(ssh)
          /\ env' = Append(env, Ev("probe", "error", <<>>))
          /\ pc' = "exit"
       \/ \E exit_code \in ExitCodes :
          \E stderr \in (IF exit_code = 0 THEN {<<>>} ELSE ProbeStderrs) :
             /\ exc' = VerifyDockerAvailable(ssh, exit_code, stderr)
             /\ env' = Append(env, Ev("probe", ExitStr(exit_code), stderr))
             /\ pc' = IF exc' = NoException THEN "inventory" ELSE "exit"
    /\ UNCHANGED <<servers, passwords, server_info_list, idx, info, client,
                   entered, closes, container_ids, pos, containers, ssh,
                   env_hist>>
    /\ UNCHANGED <<genvars, cfgvars, nestvars>>

\* the inventory listings the remote host may answer: a run of one host
\* lists at most MaxIds identifiers, and every further configured host
\* lowers what the run may list by one
Listings ==
    LET left == MaxIds - Listed(env_hist) - (Len(servers) - 1)
    IN  {<<>>, <<BLANK_LINE>>}
        \cup {Listing(n) : n \in 1..left}
        \cup (IF left >= 2
              THEN {<<ListedId(1), BLANK_LINE, ListedId(2)>>}
              ELSE {})

\* the exit code of the inventory is not looked at
ContainerIds_IgnoreExit(exit_code, stdout) == StripOutput(stdout)

\* _get_all_containers, lines 96-99: the identifiers taken from the answer
ContainerIds(exit_code, stdout) ==
    IF exit_code # 0 \/ StripOutput(stdout) = <<>>
    THEN <<>>
    ELSE StripOutput(stdout)

\* what a failing inventory may have printed before it failed
FailedListings == {<<>>, <<ListedId(1)>>}

\* _get_all_containers, lines 91-99: the inventory
Inventory ==
    /\ pc = "inventory"
    /\ client # "None"
    /\ cmds' = Append(cmds, Cmd("sudo docker ps --format '{{.ID}}'", <<>>))
    /\ \/ /\ exc' = ExecuteFailed(ssh)
          /\ env' = Append(env, Ev("inventory", "error", <<>>))
          /\ container_ids' = container_ids
          /\ pc' = "exit"
       \/ \E exit_code \in ExitCodes :
          \E stdout \in (IF exit_code = 0 THEN Listings ELSE FailedListings) :
             /\ exc' = NoException
             /\ env' = Append(env, Ev("inventory", ExitStr(exit_code), stdout))
             /\ container_ids' = ContainerIds(exit_code, stdout)
             /\ pc' = IF container_ids' = <<>> THEN "classify" ELSE "inspect"
    /\ pos' = 1
    /\ containers' = <<>>
    /\ UNCHANGED <<servers, passwords, server_info_list, idx, info, client,
                   entered, closes, ssh, env_hist>>
    /\ UNCHANGED <<genvars, cfgvars, nestvars>>


\* _inspect_container, lines 128-137: the Container an answer gives, or the
\* exception it raises; an answer is [exit_code, json_ok, data]
InspectContainer(answer) ==
    IF answer.exit_code # 0
    THEN [ok |-> FALSE, container |-> <<>>, raised |-> "RuntimeError"]
    ELSE IF ~answer.json_ok
    THEN [ok |-> FALSE, container |-> <<>>, raised |-> "JSONDecodeError"]
    ELSE LET r == _parse_container_data(answer.data)
         IN  IF r.ok
             THEN [ok |-> TRUE, container |-> r.container, raised |-> "None"]
             ELSE [ok |-> FALSE, container |-> <<>>, raised |-> "KeyError"]

InspectAnswer(exit_code, json_ok, data) ==
    [exit_code |-> exit_code, json_ok |-> json_ok, data |-> data]

\* what `docker inspect <id>` may answer
InspectAnswers(id) ==
    {InspectAnswer(1, FALSE, InspectRecord({}, id, <<>>, PORTS_NONE)),
     InspectAnswer(0, FALSE, InspectRecord({}, id, <<>>, PORTS_NONE)),
     InspectAnswer(0, TRUE,
                   InspectRecord(RequiredKeys \ {"Name"}, id, <<>>, PORTS_NONE))}
    \cup {InspectAnswer(0, TRUE, d) : d \in InspectRecords(id)}

\* a failed inspection throws away what was collected before it
InspectStep_Reset(cs, r) == IF r.ok THEN cs \o r.container ELSE <<>>

\* _get_all_containers, lines 103-114: one turn of the loop. Whatever the
\* inspection raises is caught here and the loop goes on.
InspectStep(cs, r) == IF r.ok THEN cs \o r.container ELSE cs

Inspect ==
    /\ pc = "inspect"
    /\ pos <= Len(container_ids)
    /\ client # "None"
    /\ LET container_id == StripLine(container_ids[pos])
       IN  IF container_id = <<>>
           THEN UNCHANGED <<cmds, env, containers>>
           ELSE /\ cmds' = Append(cmds, Cmd("sudo docker inspect", container_id))
                /\ \/ /\ env' = Append(env, Ev("inspect", "fail", <<container_id>>))
                      /\ containers' = InspectStep(containers,
                            [ok |-> FALSE, container |-> <<>>,
                             raised |-> "SSHConnectionError"])
                   \/ \E answer \in InspectAnswers(container_id) :
                      LET r == InspectContainer(answer)
                      IN  /\ env' = Append(env,
                                IF r.ok
                                THEN Ev("inspect", "ok",
                                        <<container_id, answer.data>>)
                                ELSE Ev("inspect", "fail", <<container_id>>))
                          /\ containers' = InspectStep(containers, r)
    /\ pos' = pos + 1
    /\ UNCHANGED <<servers, passwords, server_info_list, idx, pc, info, client,
                   exc, entered, closes, container_ids, ssh, env_hist>>
    /\ UNCHANGED <<genvars, cfgvars, nestvars>>

\* _get_all_containers returns; discover_containers groups, lines 42-61;
\* _discover_server fills the record, lines 351-353
Classify ==
    /\ \/ pc = "classify"
       \/ pc = "inspect" /\ pos > Len(container_ids)
    /\ LET g == discover_group(containers)
       IN  info' = [info EXCEPT !.docker_stacks = g.stacks,
                                !.standalone_containers = g.standalone,
                                !.connection_status = "success"]
    /\ exc' = NoException
    /\ pc' = "exit"
    /\ UNCHANGED <<servers, passwords, server_info_list, idx, client, entered,
                   closes, cmds, container_ids, pos, containers, ssh, env,
                   env_hist>>
    /\ UNCHANGED <<genvars, cfgvars, nestvars>>

UNEXPECTED == Msg("unexpected", <<>>, <<>>)

\* any other exception raised in the body of the with statement
UnexpectedError ==
    /\ pc = "inventory"
    /\ exc' = Raise("MemoryError", UNEXPECTED)
    /\ env' = Append(env, Ev("body", "MemoryError", <<>>))
    /\ pc' = "exit"
    /\ UNCHANGED <<servers, passwords, server_info_list, idx, info, client,
                   entered, closes, cmds, container_ids, pos, containers, ssh,
                   env_hist>>
    /\ UNCHANGED <<genvars, cfgvars, nestvars>>

\* connect(), lines 91-112: the generator is left, by the end of the with
\* body or by an exception
ConnectExit ==
    /\ pc = "exit"
    /\ exc' = ConnectExcept(ssh, exc)
    /\ LET f == ConnectFinally(client, closes)
       IN  /\ client' = f.client
           /\ closes' = f.closes
    /\ pc' = "catch"
    /\ UNCHANGED <<servers, passwords, server_info_list, idx, info, entered,
                   cmds, container_ids, pos, containers, ssh, env, env_hist>>
    /\ UNCHANGED <<genvars, cfgvars, nestvars>>

\* _discover_server, lines 355-368
Catch ==
    /\ pc = "catch"
    /\ info' = DiscoverServerExcept(info, exc)
    /\ exc' = NoException
    /\ pc' = "return"
    /\ UNCHANGED <<servers, passwords, server_info_list, idx, client, entered,
                   closes, cmds, container_ids, pos, containers, ssh, env,
                   env_hist>>
    /\ UNCHANGED <<genvars, cfgvars, nestvars>>

\* only the hosts that were reached are kept
Accumulate_SkipFailed(list, si) ==
    IF si.connection_status = "success" THEN Append(list, si) ELSE list

\* _discover_all_servers, lines 315-316: what it does with a host's record
Accumulate(list, si) == Append(list, si)

\* _discover_server returns, line 370; _discover_all_servers appends
Return ==
    /\ pc = "return"
    /\ server_info_list' = Accumulate(server_info_list, info)
    /\ env_hist' = Append(env_hist, env)
    /\ idx' = idx + 1
    /\ pc' = "start"
    /\ UNCHANGED <<servers, passwords, info, client, exc, entered, closes,
                   cmds, container_ids, pos, containers, ssh, env>>
    /\ UNCHANGED <<genvars, cfgvars, nestvars>>

\* _discover_all_servers, line 318
Finish ==
    /\ pc = "start"
    /\ idx > Len(servers)
    /\ pc' = "done"
    /\ UNCHANGED <<servers, passwords, server_info_list, idx, info, client,
                   exc, entered, closes, cmds, container_ids, pos, containers,
                   ssh, env, env_hist>>
    /\ UNCHANGED <<genvars, cfgvars, nestvars>>

Next ==
    \/ BeginScan
    \/ Connect
    \/ Probe
    \/ Inventory
    \/ Inspect
    \/ Classify
    \/ UnexpectedError
    \/ ConnectExit
    \/ Catch
    \/ Return
    \/ Finish

Spec == Init /\ [][Next]_vars

-----------------------------------------------------------------------------
(* Properties of the scan                                                   *)

EnvHas(op, res) == \E i \in 1..Len(env) : env[i].op = op /\ env[i].res = res

ProbeEvents == {i \in 1..Len(env) : env[i].op = "probe"}

\* the probe exited non-zero and its stderr holds the permission phrase
ProbePermissionDenied ==
    \E i \in ProbeEvents :
        /\ env[i].res = "exit nonzero"
        /\ Contains(Lower(env[i].data), PERMISSION_DENIED)

\* the probe exited non-zero and its stderr does not hold it
ProbeToolMissing ==
    \E i \in ProbeEvents :
        /\ env[i].res = "exit nonzero"
        /\ ~Contains(Lower(env[i].data), PERMISSION_DENIED)

\* C1: a scan that entered connect() has closed its connection exactly once
\* and holds none when the scope has been left, however it was left; no scan
\* closes more than once.
C1_SessionReleasedOnce ==
    /\ (entered /\ pc \in {"catch", "return"}) =>
            (closes = 1 /\ client = "None")
    /\ (entered /\ pc \in {"probe", "inventory", "inspect", "classify"}) =>
            (closes = 0 /\ client # "None")
    /\ closes <= 1

C1_Witness ==
    /\ pc = "return"
    /\ entered
    /\ closes = 1
    /\ client = "None"
    /\ EnvHas("body", "MemoryError")

\* C2: a probe that exits non-zero with a permission phrase in stderr is
\* recorded as permission_denied.
C2_PermissionDeniedRecorded ==
    (pc = "return" /\ ProbePermissionDenied) =>
        info.connection_status = "permission_denied"

\* C3: a probe that exits non-zero without a privilege problem in its error
\* text is recorded as tool_missing, status 'no_docker'.
C3_ToolMissingRecorded ==
    (pc = "return" /\ ProbeToolMissing) =>
        info.connection_status = "no_docker"

\* C4: one record per configured host, in configuration order, whatever
\* failed; all hosts are scanned; and a host's record depends on that host's
\* credentials and answers alone, not on what came before it.
C4_OneRecordPerHost ==
    /\ Len(server_info_list) = idx - 1
    /\ Len(env_hist) = idx - 1
    /\ idx - 1 <= Len(servers)
    /\ \A i \in 1..Len(server_info_list) :
            server_info_list[i].credentials = servers[i]
    /\ pc = "done" => Len(server_info_list) = Len(servers)
    /\ \A i \in 1..Len(server_info_list) :
       \A j \in 1..Len(server_info_list) :
            (servers[i] = servers[j] /\ env_hist[i] = env_hist[j]) =>
                server_info_list[i] = server_info_list[j]

C4_Witness ==
    /\ pc = "done"
    /\ Len(servers) = 2
    /\ server_info_list[1].connection_status # "success"
    /\ server_info_list[2].connection_status = "success"
    /\ total_containers(server_info_list[2]) > 0

\* C5: an unclassified exception raised in a host scan is recorded as
\* other_failure, status 'failed', with the exception's own message.
C5_UnexpectedRecordedAsFailed ==
    (pc = "return" /\ EnvHas("body", "MemoryError")) =>
        /\ info.connection_status = "failed"
        /\ info.error_message = <<UNEXPECTED>>

InspectEvents == SelectSeq(env, LAMBDA e : e.op = "inspect")
InspectedOk == SelectSeq(InspectEvents, LAMBDA e : e.res = "ok")
NonBlank(ids) == SelectSeq(ids, LAMBDA line : StripLine(line) # <<>>)

\* C6: whichever inspections fail, the loop inspects every listed
\* identifier, keeps exactly the containers of those that succeeded, in
\* listing order, and the scan ends with status success holding them all.
C6_InspectFailuresSkipped ==
    /\ pc \in {"inspect", "classify", "exit", "catch", "return"} =>
         /\ Len(containers) = Len(InspectedOk)
         /\ \A i \in 1..Len(containers) :
                containers[i] =
                    _parse_container_data(InspectedOk[i].data[2]).container[1]
         /\ Len(InspectEvents) = Len(NonBlank(SubSeq(container_ids, 1, pos - 1)))
         /\ \A i \in 1..Len(InspectEvents) :
                InspectEvents[i].data[1] = NonBlank(container_ids)[i]
    /\ (pc = "inspect" /\ pos <= Len(container_ids)) => ENABLED Inspect
    /\ (pc = "return" /\ InspectEvents # <<>>) =>
         /\ Len(InspectEvents) = Len(NonBlank(container_ids))
         /\ info.connection_status = "success"
         /\ total_containers(info) = Len(InspectedOk)

C6_Witness ==
    /\ pc = "return"
    /\ info.connection_status = "success"
    /\ Len(InspectEvents) = 3
    /\ InspectEvents[1].res = "ok"
    /\ InspectEvents[2].res = "fail"
    /\ InspectEvents[3].res = "ok"
    /\ total_containers(info) = 2

FirstWith(cs, project) ==
    CHOOSE i \in 1..Len(cs) :
        /\ is_compose_managed(cs[i]) /\ compose_project(cs[i]) = project
        /\ \A j \in 1..(i - 1) :
              ~(is_compose_managed(cs[j]) /\ compose_project(cs[j]) = project)

\* C7: after a successful discovery every labelled container is in the one
\* group named by its label value, groups are in the order their value was
\* first seen, members in discovery order; unlabelled containers are in no
\* group and make up the ungrouped list in discovery order.
C7_GroupingStable ==
    (pc \in {"exit", "catch", "return"} /\ info.connection_status = "success") =>
        LET stacks == info.docker_stacks IN
        /\ \A i \in 1..Len(stacks) :
              stacks[i].containers =
                 SelectSeq(containers,
                           LAMBDA c : /\ is_compose_managed(c)
                                      /\ compose_project(c) = stacks[i].project_name)
        /\ \A i \in 1..Len(stacks) : stacks[i].containers # <<>>
        /\ \A i \in 1..Len(stacks) : \A j \in 1..Len(stacks) :
              i < j => FirstWith(containers, stacks[i].project_name)
                          < FirstWith(containers, stacks[j].project_name)
        /\ \A k \in 1..Len(containers) :
              is_compose_managed(containers[k]) =>
                 \E i \in 1..Len(stacks) :
                    stacks[i].project_name = compose_project(containers[k])
        /\ info.standalone_containers =
              SelectSeq(containers, LAMBDA c : ~is_compose_managed(c))

C7_Witness ==
    /\ pc = "return"
    /\ info.connection_status = "success"
    /\ Len(containers) = 3
    /\ Len(info.docker_stacks) = 2
    /\ info.docker_stacks[1].project_name = DB
    /\ info.docker_stacks[1].containers = <<containers[1], containers[3]>>
    /\ info.docker_stacks[2].containers = <<containers[2]>>

-----------------------------------------------------------------------------
(* MermaidGenerator                                                         *)
(* The diagram is a sequence of lines; a line is [kind, a, b]:              *)
(*   text  : a fixed line of the output (fence, graph header, classDef)     *)
(*   node  : a["b"]            edge  : a --> b                              *)
(*   class : class a b         click : click a href "b"                     *)
(* The generator's instance state is g = [node_counter, node_map];          *)
(* node_map is an insertion-ordered dict, a sequence of <<key, id>>.        *)

Line(kind, a, b) == [kind |-> kind, a |-> a, b |-> b]

Letters ==
    {"a", "b", "c", "d", "e", "f", "g", "h", "i", "j", "k", "l", "m", "n",
     "o", "p", "q", "r", "s", "t", "u", "v", "w", "x", "y", "z",
     "A", "B", "C", "D", "E", "F", "G", "H", "I", "J", "K", "L", "M", "N",
     "O", "P", "Q", "R", "S", "T", "U", "V", "W", "X", "Y", "Z"}

\* c.isalnum()
IsAlnum(c) == c \in Letters \cup Digits

SERVER == <<"s", "e", "r", "v", "e", "r">>
STACK == <<"s", "t", "a", "c", "k">>
CONTAINER == <<"c", "o", "n", "t", "a", "i", "n", "e", "r">>
PORT == <<"p", "o", "r", "t">>

ICON_SERVER == "(server icon)"
ICON_STACK == "(stack icon)"
ICON_STANDALONE == "(whale icon)"
ICON_STACK_CONTAINER == "(diamond icon)"
ICON_PORT == "(plug icon)"
ARROW == "(arrow)"

Gen(counter, map) == [node_counter |-> counter, node_map |-> map]

MapGet(map, key) == (CHOOSE i \in 1..Len(map) : map[i][1] = key)

\* _get_node_id, lines 173-181: [g, id]
_get_node_id(g, prefix, name) ==
    LET safe_name == [i \in 1..Len(name) |->
                         IF IsAlnum(name[i]) THEN name[i] ELSE "_"]
        key == prefix \o <<"_">> \o safe_name
    IN  IF \E i \in 1..Len(g.node_map) : g.node_map[i][1] = key
        THEN [g |-> g, id |-> g.node_map[MapGet(g.node_map, key)][2]]
        ELSE LET id == prefix \o PyStr(g.node_counter)
             IN  [g |-> Gen(g.node_counter + 1,
                            Append(g.node_map, <<key, id>>)),
                  id |-> id]

\* _sanitize_text, lines 194-206
SanitizeChar(c) ==
    CASE c = "\"" -> "'"
      [] c = "[" -> "("
      [] c = "]" -> ")"
      [] c = "{" -> "("
      [] c = "}" -> ")"
      [] c = "|" -> "/"
      [] OTHER -> c

_sanitize_text(text) == [i \in 1..Len(text) |-> SanitizeChar(text[i])]

\* the bound address made part of the key
PortKey_WithAddress(port) ==
    PyStr(port.host_port) \o <<"_">> \o PyStr(port.container_port)
        \o <<"_">> \o port.protocol \o <<"_">> \o port.host_ip

\* _generate_container, line 141
PortKey(port) ==
    PyStr(port.host_port) \o <<"_">> \o PyStr(port.container_port)
        \o <<"_">> \o port.protocol

\* _generate_container, line 146
PortDisplay(port) ==
    PyStr(port.host_port) \o <<" ", ARROW, " ">> \o PyStr(port.container_port)
        \o <<"/">> \o port.protocol

HTTP == <<"h", "t", "t", "p">>
HTTPS == <<"h", "t", "t", "p", "s">>
HttpsPort == 443

\* the scheme chosen by the container's port instead of the host's
PortUrl_ByContainerPort(server_hostname, port) ==
    (IF port.container_port = HttpsPort THEN HTTPS ELSE HTTP)
        \o <<":", "/", "/">> \o server_hostname \o <<":">>
        \o PyStr(port.host_port)

\* http whatever the port
PortUrl_AlwaysHttp(server_hostname, port) ==
    HTTP \o <<":", "/", "/">> \o server_hostname \o <<":">>
        \o PyStr(port.host_port)

\* _generate_container, lines 154-155
PortUrl(server_hostname, port) ==
    (IF port.host_port = HttpsPort THEN HTTPS ELSE HTTP)
        \o <<":", "/", "/">> \o server_hostname \o <<":">>
        \o PyStr(port.host_port)

\* _generate_container, lines 139-158: the loop over container.ports;
\* seen_ports is kept as the set of its keys. [g, lines]
RECURSIVE GenPorts(_, _, _, _, _, _)
GenPorts(g, seen_ports, ports, container_id, server_hostname, container) ==
    IF ports = <<>> THEN [g |-> g, lines |-> <<>>]
    ELSE IF PortKey(ports[1]) \in seen_ports
    THEN GenPorts(g, seen_ports, Tail(ports), container_id, server_hostname,
                  container)
    ELSE Only({
        Only({
            [g |-> rest.g,
             lines |->
                 <<Line("edge", container_id, r.id),
                   Line("node", r.id,
                        <<ICON_PORT, " ">> \o PortDisplay(port)),
                   Line("class", r.id, PORT),
                   Line("click", r.id, PortUrl(server_hostname, port))>>
                 \o rest.lines] :
            rest \in {GenPorts(r.g, seen_ports \cup {PortKey(port)},
                               Tail(ports), container_id, server_hostname,
                               container)} }) :
        port \in {ports[1]},
        r \in {_get_node_id(g, PORT,
                            server_hostname \o <<"_">> \o container.name
                                \o <<"_">> \o PortKey(ports[1]))} })

STANDALONE == <<"s", "t", "a", "n", "d", "a", "l", "o", "n", "e">>
SERVER_FAILED ==
    <<"s", "e", "r", "v", "e", "r", "F", "a", "i", "l", "e", "d">>

\* _generate_container, lines 122-160: [g, lines]
_generate_container(g, parent_id, server_hostname, container, is_standalone) ==
    Only({
        Only({
            [g |-> p.g,
             lines |->
                 <<Line("edge", parent_id, r.id),
                   Line("node", r.id,
                        <<IF is_standalone THEN ICON_STANDALONE
                          ELSE ICON_STACK_CONTAINER, " ">>
                            \o _sanitize_text(container.name)
                            \o <<"<br/><small>">>
                            \o _sanitize_text(container.image)
                            \o <<"</small>">>),
                   Line("class", r.id,
                        IF is_standalone THEN STANDALONE ELSE CONTAINER)>>
                 \o p.lines] :
            p \in {GenPorts(r.g, {}, container.ports, r.id, server_hostname,
                            container)} }) :
        r \in {_get_node_id(g, CONTAINER,
                            server_hostname \o <<"_">> \o container.name)} })

\* a loop of _generate_container calls over cs: [g, lines]
RECURSIVE GenContainers(_, _, _, _, _)
GenContainers(g, parent_id, server_hostname, cs, is_standalone) ==
    IF cs = <<>> THEN [g |-> g, lines |-> <<>>]
    ELSE Only({
        Only({
            [g |-> rest.g, lines |-> r.lines \o rest.lines] :
            rest \in {GenContainers(r.g, parent_id, server_hostname, Tail(cs),
                                    is_standalone)} }) :
        r \in {_generate_container(g, parent_id, server_hostname, cs[1],
                                   is_standalone)} })

\* the members are hung on the host node instead of the stack node
_generate_stack_Flat(g, parent_id, server_hostname, stack) ==
    Only({
        Only({
            [g |-> c.g,
             lines |->
                 <<Line("edge", parent_id, r.id),
                   Line("node", r.id,
                        <<ICON_STACK, " ", "Stack:", " ">>
                            \o stack.project_name),
                   Line("class", r.id, STACK)>>
                 \o c.lines] :
            c \in {GenContainers(r.g, parent_id, server_hostname,
                                 stack.containers, FALSE)} }) :
        r \in {_get_node_id(g, STACK,
                            server_hostname \o <<"_">> \o stack.project_name)} })

\* _generate_stack, lines 92-105: [g, lines]
_generate_stack(g, parent_id, server_hostname, stack) ==
    Only({
        Only({
            [g |-> c.g,
             lines |->
                 <<Line("edge", parent_id, r.id),
                   Line("node", r.id,
                        <<ICON_STACK, " ", "Stack:", " ">>
                            \o stack.project_name),
                   Line("class", r.id, STACK)>>
                 \o c.lines] :
            c \in {GenContainers(r.g, r.id, server_hostname, stack.containers,
                                 FALSE)} }) :
        r \in {_get_node_id(g, STACK,
                            server_hostname \o <<"_">> \o stack.project_name)} })

\* generate, lines 54-56: the loop over server.docker_stacks
RECURSIVE GenStacks(_, _, _, _)
GenStacks(g, server_id, server_hostname, stacks) ==
    IF stacks = <<>> THEN [g |-> g, lines |-> <<>>]
    ELSE Only({
        Only({
            [g |-> rest.g, lines |-> r.lines \o rest.lines] :
            rest \in {GenStacks(r.g, server_id, server_hostname,
                                Tail(stacks))} }) :
        r \in {_generate_stack(g, server_id, server_hostname, stacks[1])} })

\* generate, lines 59-63: the stacks, then the standalone containers of a
\* reachable host whose node is server_id
GenWorkloads(g, server_id, server) ==
    Only({
        Only({
            [g |-> sa.g, lines |-> st.lines \o sa.lines] :
            sa \in {GenContainers(st.g, server_id,
                                  server.credentials.hostname,
                                  server.standalone_containers, TRUE)} }) :
        st \in {GenStacks(g, server_id, server.credentials.hostname,
                          server.docker_stacks)} })

\* a failed host drawn with its workloads
GenServer_NoSkip(g, server) ==
    Only({
        Only({
            [g |-> w.g,
             lines |->
                 (IF server.connection_status # "success"
                  THEN <<Line("node", r.id,
                              <<ICON_SERVER, " ">>
                                  \o server.credentials.hostname
                                  \o <<" ", "(failed)">>),
                         Line("class", r.id, SERVER_FAILED)>>
                  ELSE <<Line("node", r.id,
                              <<ICON_SERVER, " ">>
                                  \o server.credentials.hostname),
                         Line("class", r.id, SERVER)>>)
                 \o w.lines] :
            w \in {GenWorkloads(r.g, r.id, server)} }) :
        r \in {_get_node_id(g, SERVER, server.credentials.hostname)} })

\* generate, lines 39-63: one pass of the loop over servers
GenServer(g, server) ==
    Only({
        IF server.connection_status # "success"
        THEN [g |-> r.g,
              lines |->
                  <<Line("node", r.id,
                         <<ICON_SERVER, " ">> \o server.credentials.hostname
                             \o <<" ", "(failed)">>),
                    Line("class", r.id, SERVER_FAILED)>>]
        ELSE Only({
            [g |-> w.g,
             lines |->
                 <<Line("node", r.id,
                        <<ICON_SERVER, " ">> \o server.credentials.hostname),
                   Line("class", r.id, SERVER)>>
                 \o w.lines] :
            w \in {GenWorkloads(r.g, r.id, server)} }) :
        r \in {_get_node_id(g, SERVER, server.credentials.hostname)} })

\* generate, lines 39-63: the loop over servers
RECURSIVE GenServers(_, _)
GenServers(g, srvs) ==
    IF srvs = <<>> THEN [g |-> g, lines |-> <<>>]
    ELSE Only({
        Only({
            [g |-> rest.g, lines |-> r.lines \o rest.lines] :
            rest \in {GenServers(r.g, Tail(srvs))} }) :
        r \in {GenServer(g, srvs[1])} })

\* _generate_styles, lines 70-78
_generate_styles ==
    <<Line("text", <<"classDef server">>, <<>>),
      Line("text", <<"classDef serverFailed">>, <<>>),
      Line("text", <<"classDef stack">>, <<>>),
      Line("text", <<"classDef container">>, <<>>),
      Line("text", <<"classDef standalone">>, <<>>),
      Line("text", <<"classDef port">>, <<>>),
      Line("text", <<>>, <<>>)>>

\* generate, lines 30-66, called on a generator in state g: the counter and
\* the map are reset first. [g, lines]
generate(g, srvs) ==
    Only({
        [g |-> r.g,
         lines |-> <<Line("text", <<"(fence)", "mermaid">>, <<>>),
                     Line("text", <<"graph LR">>, <<>>)>>
                   \o _generate_styles \o r.lines
                   \o <<Line("text", <<"(fence)">>, <<>>)>>] :
        r \in {GenServers(Gen(0, <<>>), srvs)} })

-----------------------------------------------------------------------------
(* HtmlGenerator                                                            *)
(* The report is the sequence `parts` that generate joins with newlines.    *)
(* A part is [kind, text, msg, rows]; a table part carries one row per           *)
(* container, [name, image, ports]; the ports cell is a sequence of tokens  *)
(* [kind, href, text]: "a" for a link, "br" for the separator, "mdash" for  *)
(* the placeholder of an empty cell.                                        *)

\* html.escape(c, quote=True) of one character
EscapeChar(c) ==
    CASE c = "&" -> "&amp;"
      [] c = "<" -> "&lt;"
      [] c = ">" -> "&gt;"
      [] c = "\"" -> "&quot;"
      [] c = "'" -> "&#x27;"
      [] OTHER -> c

escape(text) == [i \in 1..Len(text) |-> EscapeChar(text[i])]

Part(kind, text, msg, rows) ==
    [kind |-> kind, text |-> text, msg |-> msg, rows |-> rows]

\* escape(str(e)) on a message: the formats hold no reserved character
RECURSIVE EscapeMsg(_)
EscapeMsg(m) ==
    Msg(m.fmt, escape(m.arg),
        IF m.cause = <<>> THEN <<>> ELSE <<EscapeMsg(m.cause[1])>>)

Token(kind, href, text) == [kind |-> kind, href |-> href, text |-> text]

RARR == "&rarr;"
BR == Token("br", <<>>, <<>>)
MDASH == Token("mdash", <<>>, <<>>)

\* "<br>".join(values)
RECURSIVE JoinBr(_)
JoinBr(values) ==
    IF values = <<>> THEN <<>>
    ELSE IF Len(values) = 1 THEN <<values[1]>>
    ELSE <<values[1], BR>> \o JoinBr(Tail(values))

\* _format_ports, lines 146-159: the loop; seen is an insertion-ordered
\* dict, a sequence of <<port_key, link>>
RECURSIVE FormatPortsLoop(_, _, _)
FormatPortsLoop(seen, ports, hostname) ==
    IF ports = <<>> THEN seen
    ELSE LET port == ports[1]
             port_key == PyStr(port.host_port) \o <<"_">>
                             \o PyStr(port.container_port) \o <<"_">>
                             \o port.protocol
         IN  IF \E i \in 1..Len(seen) : seen[i][1] = port_key
             THEN FormatPortsLoop(seen, Tail(ports), hostname)
             ELSE LET protocol == IF port.host_port = HttpsPort THEN HTTPS
                                  ELSE HTTP
                      url == protocol \o <<":", "/", "/">> \o escape(hostname)
                                 \o <<":">> \o PyStr(port.host_port)
                      display == PyStr(port.host_port) \o <<" ", RARR, " ">>
                                     \o PyStr(port.container_port) \o <<"/">>
                                     \o escape(port.protocol)
                  IN  FormatPortsLoop(
                          Append(seen, <<port_key, Token("a", url, display)>>),
                          Tail(ports), hostname)

\* _format_ports, lines 144-161
_format_ports(hostname, container) ==
    LET seen == FormatPortsLoop(<<>>, container.ports, hostname)
    IN  JoinBr([i \in 1..Len(seen) |-> seen[i][2]])

\* _build_table, lines 125-137: one row per container
_build_table(hostname, cs) ==
    [i \in 1..Len(cs) |->
        LET port_parts == _format_ports(hostname, cs[i])
        IN  [td_style |-> IF (i - 1) % 2 # 0 THEN "td_alt" ELSE "td",
             name |-> escape(cs[i].name),
             image |-> escape(cs[i].image),
             ports |-> IF port_parts # <<>> THEN port_parts ELSE <<MDASH>>]]

\* _generate_stack_table, lines 86-96
_generate_stack_table(hostname, stack) ==
    <<Part("h3_stack", escape(stack.project_name), <<>>, <<>>),
      Part("table", <<>>, <<>>,
           _build_table(hostname, stack.containers))>>

\* _generate_standalone_table, lines 98-109
_generate_standalone_table(hostname, cs) ==
    <<Part("h3_standalone", <<>>, <<>>, <<>>),
      Part("table", <<>>, <<>>, _build_table(hostname, cs))>>

RECURSIVE StackTables(_, _)
StackTables(hostname, stacks) ==
    IF stacks = <<>> THEN <<>>
    ELSE _generate_stack_table(hostname, stacks[1])
             \o StackTables(hostname, Tail(stacks))

\* generate, lines 59-82: the loop over servers
RECURSIVE HtmlServers(_)
HtmlServers(srvs) ==
    IF srvs = <<>> THEN <<>>
    ELSE LET server == srvs[1]
             hostname == escape(server.credentials.hostname)
         IN  (IF server.connection_status # "success"
              THEN <<Part("h2_fail", hostname, <<>>, <<>>)>>
                   \o (IF server.error_message # <<>>
                       THEN <<Part("p", <<>>,
                               <<EscapeMsg(server.error_message[1])>>,
                               <<>>)>>
                       ELSE <<>>)
              ELSE <<Part("h2_ok", hostname, <<>>, <<>>)>>
                   \o StackTables(hostname, server.docker_stacks)
                   \o (IF server.standalone_containers # <<>>
                       THEN _generate_standalone_table(
                                hostname, server.standalone_containers)
                       ELSE <<>>))
             \o HtmlServers(Tail(srvs))

\* the values _get_timestamp may return
Clock == {"2024-01-01 00:00:00", "2024-01-01 00:00:01"}

\* HtmlGenerator.generate, lines 52-84
html_generate(srvs, now) ==
    <<Part("h1", <<"Docker Infrastructure Map">>, <<>>, <<>>),
      Part("timestamp", <<"Generated on ", now>>, <<>>, <<>>)>>
    \o HtmlServers(srvs)


-----------------------------------------------------------------------------
(* Synthesis: the generators are handed scan results.  A scan result is     *)
(* built as the scan builds it: inspect records parsed by                   *)
(* _parse_container_data, grouped by discover_containers, stored in a       *)
(* ServerInfo by _discover_server.                                          *)

MaxPorts == 2

E80 ==
    << <<"8", "0", "/", "t", "c", "p">>,
       << Binding({"HostIp", "HostPort"}, DEFAULT_HOST_IP,
                  <<"8", "0", "8", "0">>),
          Binding({"HostIp", "HostPort"}, DEFAULT_HOST_IP,
                  <<"9", "0", "9", "0">>),
          Binding({"HostIp", "HostPort"}, IPV6_ANY,
                  <<"8", "0", "8", "0">>) >> >>
E443 ==
    << <<"4", "4", "3", "/", "t", "c", "p">>,
       << Binding({"HostIp", "HostPort"}, DEFAULT_HOST_IP,
                  <<"8", "4", "4", "3">>) >> >>
E8443 ==
    << <<"8", "4", "4", "3", "/", "t", "c", "p">>,
       << Binding({"HostIp", "HostPort"}, DEFAULT_HOST_IP,
                  <<"4", "4", "3">>) >> >>
E80U ==
    << <<"8", "0", "/", "u", "d", "p">>,
       << Binding({"HostIp", "HostPort"}, DEFAULT_HOST_IP,
                  <<"8", "0", "8", "0">>) >> >>

\* entries of NetworkSettings.Ports: a port published twice and on both
\* address families, 443 published on 8443, 8443 published on 443, and a
\* udp port
PortEntries == {E80, E443, E8443, E80U}

\* NetworkSettings.Ports is a JSON object: its keys are pairwise distinct
PortDocs ==
    {d \in UNION {[1..n -> PortEntries] : n \in 0..MaxPorts} :
        \A i, j \in 1..Len(d) : i # j => d[i][1] # d[j][1]}

Parsed(id, labels, ports) ==
    _parse_container_data(
        InspectRecord(RequiredKeys, id, labels, ports)).container[1]

\* the record of a host whose scan discovered cs
Discovered(creds, cs) ==
    LET g == discover_group(cs)
    IN  [ServerInfo(creds) EXCEPT !.docker_stacks = g.stacks,
                                  !.standalone_containers = g.standalone,
                                  !.connection_status = "success"]

\* the record of a host whose connection failed
Unreachable(creds) ==
    DiscoverServerExcept(
        ServerInfo(creds),
        Raise("SSHConnectionError",
              Msg("Authentication failed for {username}@{hostname}",
                  creds.hostname, <<>>)))

\* the record of a host whose session failed to close after its discovery
\* was stored: _discover_server, lines 346-353 and 365-368
ClosedWithError(creds, cs) ==
    DiscoverServerExcept(
        Discovered(creds, cs),
        Raise("OSError", Msg("Socket is closed", <<>>, <<>>)))

KeyHost == ServerCredentials(H1, ROOT, "key", <<KEY_FILE>>, SshPort)
PasswordHost == ServerCredentials(H2, ROOT, "password", <<>>, SshPort)

\* a host configured by a bracketed IPv6 literal, which does not resolve
LiteralHost == ServerCredentials(H4, ROOT, "password", <<>>, SshPort)
BackupHost == ServerCredentials(H3, ROOT, "key", <<KEY_FILE>>, SshPort)

\* one host running an unlabelled container with the ports of doc and a
\* labelled one bound on both address families
ScanResult(doc) ==
    <<Discovered(KeyHost,
                 <<Parsed(ListedId(1), <<>>, doc),
                   Parsed(ListedId(2), <<{<<COMPOSE_PROJECT, WEB>>}>>,
                          PORTS_WEB)>>)>>

\* the lists handed to the generators: the scan result, the scan result
\* between an unreachable host and one whose session failed to close, and
\* the same containers found on another host
SynthInputs ==
    LET s == server_info_list[1]
    IN  {server_info_list,
         <<Unreachable(LiteralHost)>> \o server_info_list
             \o <<ClosedWithError(BackupHost,
                                  s.standalone_containers
                                      \o s.docker_stacks[1].containers)>>,
         <<Discovered(PasswordHost,
                      s.standalone_containers
                          \o s.docker_stacks[1].containers)>>}

InitSynth ==
    /\ servers = <<KeyHost>>
    /\ passwords = {}
    /\ server_info_list \in {ScanResult(doc) : doc \in PortDocs}
    /\ idx = 2
    /\ pc = "done"
    /\ info = server_info_list[1]
    /\ client = "None"
    /\ exc = NoException
    /\ entered = FALSE
    /\ closes = 0
    /\ cmds = <<>>
    /\ container_ids = <<>>
    /\ pos = 1
    /\ containers = <<>>
    /\ ssh = NoManager
    /\ env = <<>>
    /\ env_hist = <<>>
    /\ GenInit
    /\ NestInit
    /\ CfgInit

\* the lines are kept on the generator and never cleared
Generate_Accumulate(inp) ==
    /\ \E r \in {generate(Gen(node_counter, node_map), inp)} :
           /\ node_counter' = r.g.node_counter
           /\ node_map' = r.g.node_map
           /\ diagram' = diagram \o r.lines
           /\ first_diagram' = IF inp \in DOMAIN first_diagram
                               THEN first_diagram
                               ELSE first_diagram @@ (inp :> diagram \o r.lines)
    /\ resynthesized' = IF inp \in DOMAIN first_diagram /\ last_input # inp
                        THEN resynthesized \cup {inp}
                        ELSE resynthesized
    /\ last_input' = inp
    /\ UNCHANGED <<report, report_input, calls>>
    /\ UNCHANGED <<scanvars, cfgvars, nestvars>>

\* generator.generate(inp) on the one MermaidGenerator of the process
Generate(inp) ==
    /\ \E r \in {generate(Gen(node_counter, node_map), inp)} :
           /\ node_counter' = r.g.node_counter
           /\ node_map' = r.g.node_map
           /\ diagram' = r.lines
           /\ first_diagram' = IF inp \in DOMAIN first_diagram
                               THEN first_diagram
                               ELSE first_diagram @@ (inp :> r.lines)
    /\ resynthesized' = IF inp \in DOMAIN first_diagram /\ last_input # inp
                        THEN resynthesized \cup {inp}
                        ELSE resynthesized
    /\ last_input' = inp
    /\ UNCHANGED <<report, report_input, calls>>
    /\ UNCHANGED <<scanvars, cfgvars, nestvars>>

\* HtmlGenerator().generate(inp) at time now
GenerateReport(inp, now) ==
    /\ report' = html_generate(inp, now)
    /\ report_input' = inp
    /\ UNCHANGED <<node_counter, node_map, diagram, last_input, first_diagram,
                   resynthesized, calls>>
    /\ UNCHANGED <<scanvars, cfgvars, nestvars>>

NextSynth ==
    \/ \E inp \in SynthInputs : Generate(inp)
    \/ \E inp \in SynthInputs, now \in Clock : GenerateReport(inp, now)

SpecSynth == InitSynth /\ [][NextSynth]_vars


-----------------------------------------------------------------------------
(* Properties of the synthesis                                              *)

\* the containers a generator renders for inp: those of the reachable hosts
Workloads(inp) ==
    UNION {
        LET s == inp[i] IN
        {[hostname |-> s.credentials.hostname, container |-> c,
          standalone |-> TRUE] :
            c \in {s.standalone_containers[k] :
                      k \in 1..Len(s.standalone_containers)}}
        \cup UNION {
            {[hostname |-> s.credentials.hostname, container |-> c,
              standalone |-> FALSE] :
                c \in {s.docker_stacks[j].containers[k] :
                          k \in 1..Len(s.docker_stacks[j].containers)}} :
            j \in 1..Len(s.docker_stacks)} :
        i \in {n \in 1..Len(inp) : inp[n].connection_status = "success"}}

\* identity key of an endpoint mapping
IdentityKey(port) == <<port.host_port, port.container_port, port.protocol>>

\* the mappings of ports that are the first of their identity key, in order
FirstPerKey(ports) ==
    LET keep == {i \in 1..Len(ports) :
                    \A j \in 1..(i - 1) :
                        IdentityKey(ports[j]) # IdentityKey(ports[i])}
    IN  [k \in 1..Cardinality(keep) |->
            ports[CHOOSE i \in keep :
                      Cardinality({j \in keep : j < i}) = k - 1]]

\* identifiers of the nodes of diagram d labelled as workload w is
WorkloadNodes(d, w) ==
    {d[i].a : i \in {n \in 1..Len(d) :
        /\ d[n].kind = "node"
        /\ d[n].b = <<IF w.standalone THEN ICON_STANDALONE
                      ELSE ICON_STACK_CONTAINER, " ">>
                        \o _sanitize_text(w.container.name)
                        \o <<"<br/><small>">>
                        \o _sanitize_text(w.container.image)
                        \o <<"</small>">>}}

\* the node lines of d that node id has an edge to, in order
ChildNodes(d, id) ==
    SelectSeq(d, LAMBDA l :
        /\ l.kind = "node"
        /\ \E j \in 1..Len(d) :
               d[j].kind = "edge" /\ d[j].a = id /\ d[j].b = l.a)

\* labels of the endpoint nodes d attaches to workload w
DiagramEndpoints(d, w) ==
    LET nodes == ChildNodes(d, Only(WorkloadNodes(d, w)))
    IN  [k \in 1..Len(nodes) |-> nodes[k].b]

\* the rows of all tables of report r
RECURSIVE ReportRows(_)
ReportRows(r) ==
    IF r = <<>> THEN <<>> ELSE r[1].rows \o ReportRows(Tail(r))

\* texts of the links report r shows for workload w
ReportEndpoints(r, w) ==
    LET rows == SelectSeq(ReportRows(r),
                          LAMBDA row : row.name = escape(w.container.name))
        links == SelectSeq(rows[1].ports, LAMBDA t : t.kind = "a")
    IN  [k \in 1..Len(links) |-> links[k].text]

\* C8: for every workload, duplicates of an identity key (exposed port,
\* internal port, protocol) included, the diagram and the report each
\* render exactly one endpoint per distinct key, the first one met, in the
\* order the keys are first met.
C8_OneEndpointPerKey ==
    /\ diagram # <<>> =>
          \A w \in Workloads(last_input) :
              /\ Cardinality(WorkloadNodes(diagram, w)) = 1
              /\ DiagramEndpoints(diagram, w) =
                     [k \in 1..Len(FirstPerKey(w.container.ports)) |->
                         <<ICON_PORT, " ">>
                             \o PortDisplay(FirstPerKey(w.container.ports)[k])]
    /\ report # <<>> =>
          \A w \in Workloads(report_input) :
              ReportEndpoints(report, w) =
                  [k \in 1..Len(FirstPerKey(w.container.ports)) |->
                      LET p == FirstPerKey(w.container.ports)[k]
                      IN  PyStr(p.host_port) \o <<" ", RARR, " ">>
                              \o PyStr(p.container_port) \o <<"/">>
                              \o escape(p.protocol)]

\* the ports of w repeat an identity key, once after a different key
RepeatsKey(w) ==
    LET ports == w.container.ports
    IN  \E i, j \in 1..Len(ports) :
            /\ i + 1 < j
            /\ IdentityKey(ports[i]) = IdentityKey(ports[j])
            /\ ports[i].host_ip # ports[j].host_ip

C8_Witness ==
    /\ diagram # <<>>
    /\ report # <<>>
    /\ \E w \in Workloads(last_input) : RepeatsKey(w)
    /\ \E w \in Workloads(report_input) : RepeatsKey(w)


\* the identifiers line l mentions
LineIds(l) ==
    CASE l.kind = "edge" -> <<l.a, l.b>>
      [] l.kind \in {"node", "class", "click"} -> <<l.a>>
      [] OTHER -> <<>>

\* the identifiers d mentions, in order, repetitions included
RECURSIVE Mentions(_)
Mentions(d) ==
    IF d = <<>> THEN <<>> ELSE LineIds(d[1]) \o Mentions(Tail(d))

\* the graph d draws, each identifier renamed to the position of its first
\* mention: labelled nodes, edges, style classes and links
Graph(d) ==
    LET m == Mentions(d)
        rank(id) == CHOOSE k \in 1..Len(m) :
                        m[k] = id /\ \A j \in 1..(k - 1) : m[j] # id
        of(kind) == {i \in 1..Len(d) : d[i].kind = kind}
    IN  [nodes |-> {<<rank(d[i].a), d[i].b>> : i \in of("node")},
         edges |-> {<<rank(d[i].a), rank(d[i].b)>> : i \in of("edge")},
         classes |-> {<<rank(d[i].a), d[i].b>> : i \in of("class")},
         links |-> {<<rank(d[i].a), d[i].b>> : i \in of("click")}]

\* C9: the diagram synthesized last has the same nodes, edges and labels,
\* up to a renaming of the identifiers, as the diagram of the first
\* synthesis of the same list on this generator, whatever was synthesized
\* in between.
C9_ResynthesisIsomorphic ==
    last_input \in DOMAIN first_diagram =>
        Graph(diagram) = Graph(first_diagram[last_input])

C9_Witness ==
    /\ last_input \in resynthesized
    /\ Cardinality(DOMAIN first_diagram) > 2

\* w exposes internal port container_port/protocol on host port host_port
Exposes(w, container_port, protocol, host_port) ==
    \E i \in 1..Len(w.container.ports) :
        /\ w.container.ports[i].container_port = container_port
        /\ w.container.ports[i].protocol = protocol
        /\ w.container.ports[i].host_port = host_port

ExposesWebPorts(w) ==
    Exposes(w, 80, TCP, 8080) /\ Exposes(w, 443, TCP, 8443)

\* identifiers of the endpoint nodes d attaches to w for the mapping
EndpointNodes(d, w, container_port, protocol, host_port) ==
    LET nodes == ChildNodes(d, Only(WorkloadNodes(d, w)))
    IN  {nodes[k].a : k \in {n \in 1..Len(nodes) :
            nodes[n].b = <<ICON_PORT, " ">>
                \o PortDisplay(PortMapping(container_port, host_port,
                                           protocol, DEFAULT_HOST_IP))}}

\* schemes of the URLs d links node id to
Schemes(d, id) ==
    {SubSeq(d[i].b, 1, IndexOf(d[i].b, ":") - 1) :
        i \in {n \in 1..Len(d) : d[n].kind = "click" /\ d[n].a = id}}

\* every workload exposing 80/tcp on 8080 and 443/tcp on 8443 has one
\* endpoint node for each of the two, and the one of 8443 links to a URL
\* of the given scheme
WebPortsRendered(scheme) ==
    diagram # <<>> =>
        \A w \in {x \in Workloads(last_input) : ExposesWebPorts(x)} :
            LET plain == EndpointNodes(diagram, w, 80, TCP, 8080)
                secure == EndpointNodes(diagram, w, 443, TCP, 8443)
            IN  /\ Cardinality(plain) = 1
                /\ Cardinality(secure) = 1
                /\ plain # secure
                /\ Schemes(diagram, Only(secure)) = {scheme}

\* C10 as stated: a workload exposing 80/tcp on host port 8080 and 443/tcp
\* on host port 8443 is rendered with two distinct endpoint nodes, and the
\* endpoint of exposed port 8443 carries a URL with scheme https.
C10_Https8443 == WebPortsRendered(HTTPS)

\* C10 amended: a workload exposing 80/tcp on host port 8080 and 443/tcp on
\* host port 8443 is rendered with two distinct endpoint nodes, and the
\* endpoint of exposed port 8443 carries a URL with scheme http (https is
\* used only for exposed port 443).
C10_Http8443 == WebPortsRendered(HTTP)

C10_Witness ==
    /\ diagram # <<>>
    /\ \E w \in Workloads(last_input) : ExposesWebPorts(w)


\* the URLs diagram d links the endpoint nodes of workload w to, in order
DiagramUrls(d, w) ==
    LET nodes == ChildNodes(d, Only(WorkloadNodes(d, w)))
    IN  [k \in 1..Len(nodes) |->
            {d[i].b : i \in {n \in 1..Len(d) :
                d[n].kind = "click" /\ d[n].a = nodes[k].a}}]

\* the link targets report r shows for workload w, in order
ReportUrls(r, w) ==
    LET rows == SelectSeq(ReportRows(r),
                          LAMBDA row : row.name = escape(w.container.name))
        links == SelectSeq(rows[1].ports, LAMBDA t : t.kind = "a")
    IN  [k \in 1..Len(links) |-> links[k].href]

\* scheme, "://", address, ":", exposed port
ExpectedUrl(address, port) ==
    (IF port.host_port = 443 THEN <<"h", "t", "t", "p", "s">>
     ELSE <<"h", "t", "t", "p">>)
        \o <<":", "/", "/">> \o address \o <<":">> \o PyStr(port.host_port)

\* C11: every endpoint rendered in the diagram and in the report links to
\* a URL whose scheme is https exactly when the exposed (host) port is 443
\* and http otherwise, followed by the host's address and the exposed port.
C11_SchemeByExposedPort ==
    /\ diagram # <<>> =>
          \A w \in Workloads(last_input) :
              DiagramUrls(diagram, w) =
                  [k \in 1..Len(FirstPerKey(w.container.ports)) |->
                      {ExpectedUrl(w.hostname,
                                   FirstPerKey(w.container.ports)[k])}]
    /\ report # <<>> =>
          \A w \in Workloads(report_input) :
              ReportUrls(report, w) =
                  [k \in 1..Len(FirstPerKey(w.container.ports)) |->
                      ExpectedUrl(w.hostname,
                                  FirstPerKey(w.container.ports)[k])]

\* w exposes something on host port 443 and something on another port
ExposesBothSchemes(w) ==
    /\ \E i \in 1..Len(w.container.ports) :
           w.container.ports[i].host_port = 443
    /\ \E i \in 1..Len(w.container.ports) :
           w.container.ports[i].host_port # 443

C11_Witness ==
    /\ diagram # <<>>
    /\ report # <<>>
    /\ \E w \in Workloads(last_input) : ExposesBothSchemes(w)
    /\ \E w \in Workloads(report_input) : ExposesBothSchemes(w)


\* identifiers of the node lines of d with the given label
NodesLabelled(d, label) ==
    {i \in 1..Len(d) : d[i].kind = "node" /\ d[i].b = label}

\* style classes d gives node id
ClassesOf(d, id) ==
    {d[i].b : i \in {n \in 1..Len(d) : d[n].kind = "class" /\ d[n].a = id}}

\* id is an end of some edge of d
Touched(d, id) ==
    \E i \in 1..Len(d) : d[i].kind = "edge" /\ (d[i].a = id \/ d[i].b = id)

HostLabel(s) ==
    <<ICON_SERVER, " ">> \o s.credentials.hostname
        \o (IF s.connection_status # "success" THEN <<" ", "(failed)">>
            ELSE <<>>)

\* C12: a host whose outcome is not success is drawn as exactly one host
\* node with the failed style, touched by no edge, and every other node
\* of the diagram is a host node or hangs off another node that is not a
\* failed host, whatever the failed host's record holds; a host whose
\* outcome is success never gets the failed style.
C12_FailedHostIsLoneNode ==
    diagram # <<>> =>
        LET hosts == {last_input[i] : i \in 1..Len(last_input)}
            failed == {s \in hosts : s.connection_status # "success"}
            host_lines == UNION {NodesLabelled(diagram, HostLabel(s)) :
                                    s \in hosts}
        IN  /\ \A s \in failed :
                   /\ Cardinality(NodesLabelled(diagram, HostLabel(s))) = 1
                   /\ \A i \in NodesLabelled(diagram, HostLabel(s)) :
                          /\ ClassesOf(diagram, diagram[i].a)
                                 = {SERVER_FAILED}
                          /\ ~Touched(diagram, diagram[i].a)
            /\ \A s \in hosts \ failed :
                   \A i \in NodesLabelled(diagram, HostLabel(s)) :
                       ClassesOf(diagram, diagram[i].a) = {SERVER}
            /\ \A i \in 1..Len(diagram) :
                   diagram[i].kind = "node" /\ i \notin host_lines =>
                       \E j \in 1..Len(diagram) :
                           /\ diagram[j].kind = "edge"
                           /\ diagram[j].b = diagram[i].a
            /\ Cardinality({i \in 1..Len(diagram) :
                               diagram[i].kind = "node"})
                   = Cardinality(hosts)
                     + Cardinality({i \in 1..Len(diagram) :
                                       diagram[i].kind = "edge"})

\* a diagram of a failed host whose record holds workloads, with a
\* successful host next to it
C12_Witness ==
    /\ diagram # <<>>
    /\ \E i \in 1..Len(last_input) :
           /\ last_input[i].connection_status # "success"
           /\ last_input[i].standalone_containers # <<>>
    /\ \E i \in 1..Len(last_input) :
           last_input[i].connection_status = "success"


\* the inventory of the running scan exited 0 with nothing but blanks
InventoryWasEmpty ==
    \E i \in 1..Len(env) :
        /\ env[i].op = "inventory"
        /\ env[i].res = "exit 0"
        /\ \A k \in 1..Len(env[i].data) :
               \A c \in 1..Len(env[i].data[k]) : env[i].data[k][c] = " "

InspectIssued ==
    \E i \in 1..Len(cmds) : cmds[i].command = "sudo docker inspect"

\* C16: when the probe succeeded and the inventory answered empty or
\* whitespace-only output, the scan issues no inspect command, and the
\* record it returns holds no groups and no ungrouped workloads and has
\* outcome success.
C16_EmptyInventoryIsSuccess ==
    InventoryWasEmpty =>
        /\ ~InspectIssued
        /\ pc = "return" =>
               /\ info.docker_stacks = <<>>
               /\ info.standalone_containers = <<>>
               /\ info.connection_status = "success"
               /\ info.error_message = <<>>

\* a scan returns after a whitespace-only inventory
C16_Witness ==
    /\ pc = "return"
    /\ InventoryWasEmpty
    /\ \E i \in 1..Len(env) :
           env[i].op = "inventory" /\ env[i].data = <<BLANK_LINE>>

\* the probe of the running scan exited non-zero
ProbeFailed ==
    \E i \in 1..Len(env) : env[i].op = "probe" /\ env[i].res = "exit nonzero"

\* C17: when the availability probe exits non-zero the scan issues neither
\* the inventory command nor any inspect command (the probe is its only
\* command), and the record it returns holds no groups and no ungrouped
\* workloads.
C17_ProbeFailureStopsDiscovery ==
    ProbeFailed =>
        /\ cmds = <<Cmd("sudo docker --version", <<>>)>>
        /\ pc \notin {"inventory", "inspect", "classify"}
        /\ info.docker_stacks = <<>>
        /\ info.standalone_containers = <<>>
        /\ info.connection_status # "success"

C17_Witness ==
    /\ pc = "return"
    /\ ProbeFailed
    /\ closes = 1


StructuralChars == {"\"", "[", "]", "{", "}", "|"}

\* C18: no double quote, square bracket, brace or pipe coming from a host
\* name, group name, workload name, image reference or protocol appears
\* inside a node label of the generated diagram.
C18_LabelsSanitised ==
    \A i \in 1..Len(diagram) :
        diagram[i].kind = "node" =>
            \A k \in 1..Len(diagram[i].b) :
                diagram[i].b[k] \notin StructuralChars


-----------------------------------------------------------------------------
(* ServerCredentials construction: models/server.py                         *)

\* a text that is one token, such as the name of an authentication method
Word(w) == <<w>>

\* Python values read from or written to the configuration file
StrVal(s) == [type |-> "str", s |-> s, n |-> 0]
IntVal(n) == [type |-> "int", s |-> <<>>, n |-> n]

HOME == <<"/", "r">>

\* Path.expanduser(): a leading ~ becomes the home directory
expanduser(path) ==
    IF path # <<>> /\ path[1] = "~" THEN HOME \o Tail(path) ELSE path

\* Literal["key", "password"]
AuthMethods == {"key", "password"}

MinPort == 1
MaxPort == 65535

\* validate_ssh_key_path: None stays None, a path is expanded
validate_ssh_key_path(v) == IF v = <<>> THEN <<>> ELSE <<expanduser(v[1])>>

\* every port passes
validate_port_Any(v) == TRUE

\* validate_port: TRUE when no ValueError is raised
validate_port(v) == MinPort <= v /\ v <= MaxPort

\* validate_auth_config: TRUE when no ValueError is raised
validate_auth_config(self) ==
    ~(self.auth_method = "key" /\ self.ssh_key_path = <<>>)

Kwargs(hostname, username, auth_method, ssh_key_path, port) ==
    [hostname |-> hostname, username |-> username,
     auth_method |-> auth_method, ssh_key_path |-> ssh_key_path,
     port |-> port]

\* the call ServerCredentials(**kwargs) with its outcome
Call(kwargs, made) ==
    [kwargs |-> kwargs, ok |-> made # <<>>, made |-> made]

\* ServerCredentials(**kwargs): the fields are validated, then the model;
\* the call of the result holds the record, or none when pydantic raises
\* its ValidationError
Construct(kwargs) ==
    IF /\ kwargs.hostname.type = "str"
       /\ kwargs.username.type = "str"
       /\ kwargs.auth_method.type = "str"
       /\ kwargs.auth_method.s \in {Word(m) : m \in AuthMethods}
       /\ kwargs.port.type = "int"
       /\ validate_port(kwargs.port.n)
    THEN LET self == ServerCredentials(
                         kwargs.hostname.s, kwargs.username.s,
                         kwargs.auth_method.s[1],
                         validate_ssh_key_path(kwargs.ssh_key_path),
                         kwargs.port.n)
         IN  IF validate_auth_config(self)
             THEN Call(kwargs, <<self>>)
             ELSE Call(kwargs, <<>>)
    ELSE Call(kwargs, <<>>)


-----------------------------------------------------------------------------
(* The configuration file: core/config_manager.py                           *)

\* a YAML scalar as it stands in the file
Scalar(style, text) == [style |-> style, text |-> text]

\* yaml.dump of a value: an integer is written plain; a string that would
\* be read back as an integer is written in quotes
represent(v) ==
    IF v.type = "int" THEN Scalar("plain", PyStr(v.n))
    ELSE IF AllDigits(v.s) THEN Scalar("quoted", v.s)
    ELSE Scalar("plain", v.s)

\* yaml.safe_load of a scalar: a plain run of digits is an integer
construct_scalar(node) ==
    IF node.style = "plain" /\ AllDigits(node.text)
    THEN IntVal(DigitsVal(node.text))
    ELSE StrVal(node.text)

\* a document: whether it parses, whether its mapping has the key
\* "servers", and the entries under it, each a sequence of <<key, value>>
Document(parses, has_servers, entries) ==
    [parses |-> parses, has_servers |-> has_servers, entries |-> entries]

\* yaml.dump(data, f, default_flow_style=False, sort_keys=False): the keys
\* keep their order
yaml_dump(entries) ==
    Document(TRUE, TRUE,
             [i \in 1..Len(entries) |->
                 [k \in 1..Len(entries[i]) |->
                     <<entries[i][k][1], represent(entries[i][k][2])>>]])

\* yaml.safe_load(f), for a document that parses
yaml_safe_load(doc) ==
    [i \in 1..Len(doc.entries) |->
        [k \in 1..Len(doc.entries[i]) |->
            <<doc.entries[i][k][1],
              construct_scalar(doc.entries[i][k][2])>>]]

HasKey(entry, key) == \E k \in 1..Len(entry) : entry[k][1] = key

\* entry[key]
Item(entry, key) ==
    entry[CHOOSE k \in 1..Len(entry) : entry[k][1] = key][2]

\* entry.get(key, default)
Get(entry, key, default) ==
    IF HasKey(entry, key) THEN Item(entry, key) ELSE default

\* _serialize_server, lines 56-67
_serialize_server(server) ==
    <<<<"hostname", StrVal(server.hostname)>>,
      <<"username", StrVal(server.username)>>,
      <<"auth_method", StrVal(Word(server.auth_method))>>,
      <<"port", IntVal(server.port)>>>>
    \o (IF server.auth_method = "key" /\ server.ssh_key_path # <<>>
        THEN <<<<"ssh_key_path", StrVal(server.ssh_key_path[1])>>>>
        ELSE <<>>)

\* save_servers, lines 45-51: the file it writes
save_servers(srvs) ==
    yaml_dump([i \in 1..Len(srvs) |-> _serialize_server(srvs[i])])


\* load_servers, lines 89-103: the arguments one entry gives the constructor
LoadKwargs(server) ==
    LET given == Get(server, "auth_method", StrVal(Word("key")))
        auth_method == IF given = StrVal(Word("password"))
                       THEN StrVal(Word("pass")) ELSE given
    IN  Kwargs(Item(server, "hostname"), Item(server, "username"),
               auth_method,
               IF /\ auth_method = StrVal(Word("key"))
                  /\ HasKey(server, "ssh_key_path")
                  /\ Item(server, "ssh_key_path").s # <<>>
               THEN <<Item(server, "ssh_key_path").s>> ELSE <<>>,
               Get(server, "port", IntVal(SshPort)))

\* what load_servers hands back: the exception it raises, whether it
\* returns None, the list it returns, and the last constructor call it made
Loaded(e, none, value, call) ==
    [exc |-> e, none |-> none, value |-> value, call |-> call]

\* load_servers, lines 87-104: the loop over data["servers"]
RECURSIVE LoadEntries(_, _, _)
LoadEntries(entries, srvs, call) ==
    IF entries = <<>> THEN Loaded(NoException, FALSE, srvs, call)
    ELSE IF ~HasKey(entries[1], "hostname")
    THEN Loaded(Raise("KeyError", Msg("hostname", <<>>, <<>>)), FALSE, <<>>,
                call)
    ELSE IF ~HasKey(entries[1], "username")
    THEN Loaded(Raise("KeyError", Msg("username", <<>>, <<>>)), FALSE, <<>>,
                call)
    ELSE Only({
        IF c.ok
        THEN LoadEntries(Tail(entries), srvs \o c.made, <<c>>)
        ELSE Loaded(Raise("ValidationError",
                          Msg("validation error for ServerCredentials",
                              <<>>, <<>>)),
                    FALSE, <<>>, <<c>>) :
        c \in {Construct(LoadKwargs(entries[1]))} })

\* load_servers, lines 106-111: the except clauses
LoadExcept(e) ==
    IF e = NoException THEN NoException
    ELSE IF IsA(e[1].type, "YAMLError")
    THEN Raise("ConfigurationError",
               Msg("Failed to parse configuration file: {e}", <<>>,
                   <<e[1].msg>>))
    ELSE IF \/ IsA(e[1].type, "KeyError")
            \/ IsA(e[1].type, "TypeError")
            \/ IsA(e[1].type, "ValueError")
    THEN Raise("ConfigurationError",
               Msg("Invalid configuration format: {e}", <<>>, <<e[1].msg>>))
    ELSE Raise("ConfigurationError",
               Msg("Failed to load configuration: {e}", <<>>, <<e[1].msg>>))

\* load_servers, lines 69-113, on the file as it is
load_servers(file) ==
    IF file = <<>> THEN Loaded(NoException, TRUE, <<>>, <<>>)
    ELSE IF ~file[1].parses
    THEN Loaded(LoadExcept(Raise("YAMLError",
                                 Msg("could not parse", <<>>, <<>>))),
                FALSE, <<>>, <<>>)
    ELSE IF ~file[1].has_servers THEN Loaded(NoException, TRUE, <<>>, <<>>)
    ELSE Only({
        Loaded(LoadExcept(r.exc), FALSE, r.value, r.call) :
        r \in {LoadEntries(yaml_safe_load(file[1]), <<>>, <<>>)} })


\* generate_template, lines 122-146: the three example entries
generate_template ==
    yaml_dump(
        <<<<<<"hostname", StrVal(Word("server1.example.com"))>>,
            <<"username", StrVal(Word("root"))>>,
            <<"auth_method", StrVal(Word("key"))>>,
            <<"ssh_key_path", StrVal(Word("/home/youruser/.ssh/id_rsa"))>>,
            <<"port", IntVal(SshPort)>>>>,
          <<<<"hostname", StrVal(Word("server2.example.com"))>>,
            <<"username", StrVal(Word("admin"))>>,
            <<"auth_method", StrVal(Word("pass"))>>,
            <<"port", IntVal(SshPort)>>>>,
          <<<<"hostname", StrVal(Word("server3.example.com"))>>,
            <<"username", StrVal(Word("deploy"))>>,
            <<"auth_method", StrVal(Word("agent"))>>,
            <<"port", IntVal(SshPort)>>>>>>)

-----------------------------------------------------------------------------
(* InfraMapper.run: the configuration phase and the exit of the process.    *)
(* pc: config -> prompt -> scan -> exited -> config (the next run)          *)

TILDE_KEY == <<"~", "/", "k">>
NUMERIC_HOST == <<"1", "0">>

\* what the user types in one turn of _prompt_servers; key_path is <<>>
\* when no existing key file is named
Answer(hostname, port_str, auth_method, key_path) ==
    [hostname |-> hostname, username |-> ROOT, port_str |-> port_str,
     auth_method |-> auth_method, key_path |-> key_path, password |-> SECRET]

PromptAnswers ==
    {Answer(H1, <<"2", "2">>, "key", <<KEY_FILE>>),
     Answer(H2, <<"2", "2">>, "password", <<>>),
     Answer(NUMERIC_HOST, <<"x">>, "key", <<TILDE_KEY>>),
     Answer(H1, <<"0">>, "password", <<>>),
     Answer(H2, <<"6", "5", "5", "3", "6">>, "key", <<KEY_FILE>>),
     Answer(H3, <<"2", "2">>, "key", <<>>)}

\* files written by hand: not YAML, no servers key, a key host without a
\* key path, a port out of range, an entry without a hostname
HandWritten ==
    {Document(FALSE, FALSE, <<>>),
     Document(TRUE, FALSE, <<>>),
     Document(TRUE, TRUE,
              <<<<<<"hostname", Scalar("plain", H1)>>,
                  <<"username", Scalar("plain", ROOT)>>,
                  <<"auth_method", Scalar("plain", Word("key"))>>>>>>),
     Document(TRUE, TRUE,
              <<<<<<"hostname", Scalar("plain", H1)>>,
                  <<"username", Scalar("plain", ROOT)>>,
                  <<"auth_method", Scalar("plain", Word("key"))>>,
                  <<"ssh_key_path", Scalar("plain", KEY_FILE)>>,
                  <<"port", Scalar("plain", <<"7", "0", "0", "0", "0">>)>>>>>>),
     Document(TRUE, TRUE,
              <<<<<<"username", Scalar("plain", ROOT)>>>>>>)}

\* dict[key] = value
DictPut(d, key, value) == {kv \in d : kv[1] # key} \cup {<<key, value>>}

\* _collect_passwords, lines 157-174: a password is asked for each
\* password host
RECURSIVE _collect_passwords(_, _)
_collect_passwords(srvs, typed) ==
    IF srvs = <<>> THEN {}
    ELSE IF srvs[Len(srvs)].auth_method = "password"
    THEN DictPut(_collect_passwords(SubSeq(srvs, 1, Len(srvs) - 1), typed),
                 server_key(srvs[Len(srvs)]), typed)
    ELSE _collect_passwords(SubSeq(srvs, 1, Len(srvs) - 1), typed)

\* dict.update
DictUpdate(d, other) ==
    {kv \in d : ~\E o \in other : o[1] = kv[1]} \cup other

\* run, lines 88-96, and the end of main: the exit status of the process
\* when run() ends with exception e
RunExit(e) ==
    IF e = NoException THEN 0
    ELSE IF IsA(e[1].type, "KeyboardInterrupt") THEN 0
    ELSE IF IsA(e[1].type, "InfraMapperError") THEN 1
    ELSE 1


InitConfig ==
    /\ servers = <<>>
    /\ passwords = {}
    /\ server_info_list = <<>>
    /\ idx = 1
    /\ pc = "config"
    /\ info = ServerInfo(ServerCredentials(<<>>, <<>>, "key", <<>>, SshPort))
    /\ client = "None"
    /\ exc = NoException
    /\ entered = FALSE
    /\ closes = 0
    /\ cmds = <<>>
    /\ container_ids = <<>>
    /\ pos = 1
    /\ containers = <<>>
    /\ ssh = NoManager
    /\ env = <<>>
    /\ env_hist = <<>>
    /\ GenInit
    /\ NestInit
    /\ store \in {<<>>} \cup {<<doc>> : doc \in HandWritten}
    /\ saved = <<>>
    /\ loaded = <<>>
    /\ attempt = <<>>
    /\ exit_status = <<>>

\* what the configuration phase leaves alone
idlevars == <<server_info_list, idx, info, client, entered, closes, cmds,
              container_ids, pos, containers, ssh, env, env_hist>>

\* _get_server_configurations, lines 100-119: a file exists
LoadSaved ==
    /\ pc = "config"
    /\ store # <<>>
    /\ \E r \in {load_servers(store)}, use_saved \in BOOLEAN :
           /\ loaded' = <<r>>
           /\ attempt' = IF r.call # <<>> THEN r.call ELSE attempt
           /\ IF r.exc = NoException /\ r.value # <<>> /\ use_saved
              THEN /\ servers' = r.value
                   /\ passwords' = DictUpdate(passwords,
                                       _collect_passwords(r.value, SECRET))
                   /\ pc' = "scan"
              ELSE /\ pc' = "prompt"
                   /\ UNCHANGED <<servers, passwords>>
    /\ UNCHANGED <<store, saved, exc, exit_status>>
    /\ UNCHANGED <<idlevars, genvars, nestvars>>

\* _get_server_configurations, lines 121-137: the first run; with choice
\* "t" the template is written and run returns at lines 57-59
FirstRun ==
    /\ pc = "config"
    /\ store = <<>>
    /\ \E choice \in {"c", "t"} :
           IF choice = "t"
           THEN /\ store' = <<generate_template>>
                /\ exit_status' = <<RunExit(NoException)>>
                /\ pc' = "exited"
           ELSE /\ pc' = "prompt"
                /\ UNCHANGED <<store, exit_status>>
    /\ UNCHANGED <<servers, passwords, exc, saved, loaded, attempt>>
    /\ UNCHANGED <<idlevars, genvars, nestvars>>

\* _prompt_servers, lines 184-247: one turn of the loop with the answers a,
\* already stripped
PromptServer ==
    /\ pc = "prompt"
    /\ Len(servers) < MaxHosts
    /\ \E a \in PromptAnswers :
           LET port == IF PyInt(a.port_str).ok THEN PyInt(a.port_str).val
                       ELSE SshPort
           IN  IF a.auth_method = "key" /\ a.key_path = <<>>
               THEN UNCHANGED <<servers, passwords, attempt>>
               ELSE \E c \in {Construct(
                                 Kwargs(StrVal(a.hostname),
                                        StrVal(a.username),
                                        StrVal(Word(a.auth_method)),
                                        IF a.auth_method = "key"
                                        THEN a.key_path ELSE <<>>,
                                        IntVal(port)))} :
                        /\ attempt' = <<c>>
                        /\ servers' = servers \o c.made
                        /\ passwords' =
                               IF a.auth_method = "key" THEN passwords
                               ELSE DictPut(passwords,
                                            a.hostname \o <<":">>
                                                \o PyStr(port),
                                            a.password)
    /\ UNCHANGED <<pc, exc, store, saved, loaded, exit_status>>
    /\ UNCHANGED <<idlevars, genvars, nestvars>>

\* _prompt_servers, line 198: an empty hostname ends the loop;
\* _get_server_configurations, lines 142-155: the offer to save; run,
\* lines 57-59: nothing configured
EndPrompt ==
    /\ pc = "prompt"
    /\ IF servers = <<>>
       THEN /\ exit_status' = <<RunExit(NoException)>>
            /\ pc' = "exited"
            /\ UNCHANGED <<store, saved, loaded>>
       ELSE /\ \E save_config \in BOOLEAN :
                   IF save_config
                   THEN /\ store' = <<save_servers(servers)>>
                        /\ saved' = <<servers>>
                        /\ loaded' = <<>>
                   ELSE UNCHANGED <<store, saved, loaded>>
            /\ pc' = "scan"
            /\ UNCHANGED exit_status
    /\ UNCHANGED <<servers, passwords, exc, attempt>>
    /\ UNCHANGED <<idlevars, genvars, nestvars>>

\* run, lines 61-96: the scan, the diagram and its file; every failure of
\* a host is caught in _discover_server, writing the diagram may fail
Scan ==
    /\ pc = "scan"
    /\ \E e \in {NoException,
                 Raise("OSError", Msg("cannot write", <<>>, <<>>))} :
           /\ exc' = e
           /\ exit_status' = <<RunExit(e)>>
    /\ pc' = "exited"
    /\ UNCHANGED <<servers, passwords, store, saved, loaded, attempt>>
    /\ UNCHANGED <<idlevars, genvars, nestvars>>

\* the user interrupts run() at a prompt or during the scan
Cancel ==
    /\ pc \in {"config", "prompt", "scan"}
    /\ exc' = Raise("KeyboardInterrupt", Msg("", <<>>, <<>>))
    /\ exit_status' = <<RunExit(exc')>>
    /\ pc' = "exited"
    /\ UNCHANGED <<servers, passwords, store, saved, loaded, attempt>>
    /\ UNCHANGED <<idlevars, genvars, nestvars>>

\* the program is started again: __init__, lines 33-40; the file stays
Rerun ==
    /\ pc = "exited"
    /\ pc' = "config"
    /\ servers' = <<>>
    /\ passwords' = {}
    /\ exc' = NoException
    /\ loaded' = <<>>
    /\ attempt' = <<>>
    /\ exit_status' = <<>>
    /\ UNCHANGED <<store, saved>>
    /\ UNCHANGED <<idlevars, genvars, nestvars>>

NextConfig ==
    \/ LoadSaved
    \/ FirstRun
    \/ PromptServer
    \/ EndPrompt
    \/ Scan
    \/ Cancel
    \/ Rerun

SpecConfig == InitConfig /\ [][NextConfig]_vars

\* the file is what save_servers wrote for the list saved, and it was
\* loaded since
Reloaded == saved # <<>> /\ loaded # <<>>

\* C13: saving a list of valid credentials and loading the file again
\* succeeds and gives one entry per saved entry, in order, with the saved
\* hostname, username, auth mode and port; the file holds no secret.
C13_RoundTrip ==
    Reloaded =>
        /\ store = <<save_servers(saved[1])>>
        /\ loaded[1].exc = NoException
        /\ ~loaded[1].none
        /\ Len(loaded[1].value) = Len(saved[1])
        /\ \A i \in 1..Len(loaded[1].value) :
               /\ loaded[1].value[i].hostname = saved[1][i].hostname
               /\ loaded[1].value[i].username = saved[1][i].username
               /\ loaded[1].value[i].auth_method = saved[1][i].auth_method
               /\ loaded[1].value[i].port = saved[1][i].port
        /\ \A i \in 1..Len(store[1].entries) :
               ~HasKey(store[1].entries[i], "password")


\* the credential records held by the program: configured, loaded, saved
Records ==
    {servers[i] : i \in 1..Len(servers)}
    \cup (IF loaded = <<>> THEN {}
          ELSE {loaded[1].value[i] : i \in 1..Len(loaded[1].value)})
    \cup (IF attempt = <<>> \/ ~attempt[1].ok THEN {}
          ELSE {attempt[1].made[1]})

\* C19: constructing a credential record fails when the mode is key and
\* no key path is given and when the port is outside 1..65535, so every
\* record that exists, prompted or loaded, has a key path if its mode is
\* key and a port within 1..65535.
C19_RecordsAreValid ==
    /\ attempt # <<>> =>
           LET kwargs == attempt[1].kwargs
           IN  /\ (kwargs.auth_method = StrVal(Word("key"))
                      /\ kwargs.ssh_key_path = <<>>) => ~attempt[1].ok
               /\ (kwargs.port.n < 1 \/ kwargs.port.n > 65535)
                      => ~attempt[1].ok
    /\ \A r \in Records :
           /\ r.auth_method = "key" => r.ssh_key_path # <<>>
           /\ r.port \in 1..65535

\* a port out of range was just refused while a key host is configured
C19_Witness ==
    /\ attempt # <<>>
    /\ ~attempt[1].ok
    /\ attempt[1].kwargs.port.n > 65535
    /\ \E i \in 1..Len(servers) : servers[i].auth_method = "key"

\* C14: the process exits with status 0 after a completed run, with a
\* non-zero status when run() ends on a configuration or unexpected
\* failure, and on cancellation by the user with a non-zero status that
\* is not the status of a failure.
C14_ExitStatus ==
    pc = "exited" =>
        IF exc = NoException THEN exit_status = <<0>>
        ELSE IF IsA(exc[1].type, "KeyboardInterrupt")
        THEN /\ exit_status # <<0>>
             /\ exit_status
                    # <<RunExit(Raise("Exception", Msg("", <<>>, <<>>)))>>
        ELSE exit_status # <<0>>


-----------------------------------------------------------------------------
(* SSHConnectionManager used on its own: scopes are opened and left and     *)
(* commands are executed in any order.  pc: idle -> body -> idle;           *)
(* refused when _discover_server builds no manager.                         *)

MaxCalls == 3

\* the host of the third template entry, config_manager.py lines 139-144
AgentHost ==
    ServerCredentials(Word("server3.example.com"), Word("deploy"), "agent",
                      <<>>, SshPort)

SessionHosts == CredPool \cup {AgentHost}

\* _discover_server, lines 322-344: the manager built for creds, or the
\* record returned when a password host has no password
DiscoverManager(creds, pws) ==
    LET password == DictGet(pws, server_key(creds))
    IN  IF creds.auth_method = "password"
        THEN IF ~Truthy(password)
             THEN [ok |-> FALSE, mgr |-> NoManager,
                   info |-> [ServerInfo(creds) EXCEPT
                       !.connection_status = "ssh_failed",
                       !.error_message =
                           <<Msg("No password provided", <<>>, <<>>)>>]]
             ELSE [ok |-> TRUE,
                   mgr |-> SSHConnectionManager(creds.hostname,
                               creds.username, <<>>, creds.port, password),
                   info |-> ServerInfo(creds)]
        ELSE [ok |-> TRUE,
              mgr |-> SSHConnectionManager(creds.hostname, creds.username,
                          creds.ssh_key_path, creds.port, <<>>),
              info |-> ServerInfo(creds)]

\* connect(), lines 56-87: the credential handed to SSHClient.connect,
\* "none" when the method raises before it connects
ConnectAuth(mgr) ==
    IF Truthy(mgr.password) THEN "password"
    ELSE IF mgr.key_path # <<>> THEN "pkey"
    ELSE "none"

\* the command runs whether or not a connection is open
execute_command_Unchecked(mgr, c, command, fails) ==
    IF fails THEN [exc |-> ExecuteFailed(mgr), ran |-> <<command>>]
    ELSE [exc |-> NoException, ran |-> <<command>>]

\* execute_command, lines 128-144, with c the value of self._client: the
\* exception raised and the command that reached the remote host
execute_command(mgr, c, command, fails) ==
    IF c = "None"
    THEN [exc |-> Raise("ConnectionError",
                        Msg("Not connected to server.", <<>>, <<>>)),
          ran |-> <<>>]
    ELSE IF fails THEN [exc |-> ExecuteFailed(mgr), ran |-> <<command>>]
    ELSE [exc |-> NoException, ran |-> <<command>>]

InitSession ==
    /\ \E creds \in SessionHosts :
       \E pws \in PasswordDicts(<<creds>>) :
       \E r \in {DiscoverManager(creds, pws)} :
           /\ servers = <<creds>>
           /\ passwords = pws
           /\ info = r.info
           /\ ssh = r.mgr
           /\ pc = IF r.ok THEN "idle" ELSE "refused"
    /\ server_info_list = <<>>
    /\ idx = 1
    /\ client = "None"
    /\ exc = NoException
    /\ entered = FALSE
    /\ closes = 0
    /\ cmds = <<>>
    /\ container_ids = <<>>
    /\ pos = 1
    /\ containers = <<>>
    /\ env = <<>>
    /\ env_hist = <<>>
    /\ GenInit
    /\ NestInit
    /\ CfgInit

\* what a session leaves alone
restvars == <<servers, passwords, server_info_list, idx, info,
              container_ids, pos, containers, ssh, env_hist>>

\* `with ssh.connect():` is entered, lines 52-89: the client is created;
\* the connection is made, or what is raised passes the except clauses
\* and the finally clause
SessionEnter ==
    /\ pc = "idle"
    /\ Len(env) < MaxCalls
    /\ entered' = TRUE
    /\ IF ConnectAuth(ssh) = "none"
       THEN /\ exc' = ConnectExcept(ssh,
                          Raise("SSHConnectionError",
                                Msg("No authentication method provided.",
                                    <<>>, <<>>)))
            /\ env' = Append(env, Ev("enter", "refused", <<>>))
            /\ client' = ConnectFinally("client", closes).client
            /\ closes' = ConnectFinally("client", closes).closes
            /\ pc' = "idle"
       ELSE \/ /\ exc' = NoException
               /\ env' = Append(env, Ev("connect", "ok", <<ConnectAuth(ssh)>>))
               /\ client' = "client"
               /\ closes' = closes
               /\ pc' = "body"
            \/ \E t \in ConnectErrors(ssh) :
               /\ exc' = ConnectExcept(ssh, Raise(t, Msg(t, <<>>, <<>>)))
               /\ env' = Append(env,
                            IF t = "FileNotFoundError"
                            THEN Ev("enter", t, <<>>)
                            ELSE Ev("connect", t, <<ConnectAuth(ssh)>>))
               /\ client' = ConnectFinally("client", closes).client
               /\ closes' = ConnectFinally("client", closes).closes
               /\ pc' = "idle"
    /\ UNCHANGED cmds
    /\ UNCHANGED <<restvars, genvars, cfgvars, nestvars>>

SessionCommands ==
    {Cmd("sudo docker --version", <<>>),
     Cmd("sudo docker ps --format '{{.ID}}'", <<>>)}

\* ssh.execute_command(command), inside a scope or outside of any
SessionExecute ==
    /\ pc \in {"idle", "body"}
    /\ Len(cmds) < MaxCalls
    /\ \E command \in SessionCommands, fails \in BOOLEAN :
       \E r \in {execute_command(ssh, client, command, fails)} :
           /\ exc' = r.exc
           /\ cmds' = cmds \o r.ran
    /\ UNCHANGED <<pc, client, entered, closes, env>>
    /\ UNCHANGED <<restvars, genvars, cfgvars, nestvars>>

\* the with body ends, or raises: connect(), lines 91-112
SessionLeave ==
    /\ pc = "body"
    /\ \E e \in {NoException, exc, Raise("MemoryError", UNEXPECTED)} :
           exc' = ConnectExcept(ssh, e)
    /\ client' = ConnectFinally(client, closes).client
    /\ closes' = ConnectFinally(client, closes).closes
    /\ pc' = "idle"
    /\ UNCHANGED <<entered, cmds, env>>
    /\ UNCHANGED <<restvars, genvars, cfgvars, nestvars>>

NextSession ==
    \/ SessionEnter
    \/ SessionExecute
    \/ SessionLeave

SpecSession == InitSession /\ [][NextSession]_vars


\* C15: a command runs through a manager only while a connect() scope of
\* that manager is open: an execute_command call made before the first
\* scope or after a scope was left, however it was left, raises an error
\* and nothing reaches the remote host.
C15_ExecuteOnlyInScope ==
    [][(SessionExecute /\ pc # "body")
           => (cmds' = cmds /\ exc' # NoException)]_vars

\* a call was refused after a scope in which a command ran had been left
C15_Witness ==
    /\ pc = "idle"
    /\ closes >= 1
    /\ cmds # <<>>
    /\ exc # NoException
    /\ exc[1].type = "ConnectionError"

\* the credential shape of an authentication mode
ShapeOf(auth_method) ==
    CASE auth_method = "key" -> "pkey"
      [] auth_method = "password" -> "password"
      [] auth_method = "agent" -> "agent"

\* the session was turned down before any connection was attempted
RefusedBeforeNetwork ==
    \/ pc = "refused"
    \/ \E i \in 1..Len(env) : env[i].op = "enter" /\ env[i].res = "refused"

-----------------------------------------------------------------------------
(* Endpoint extraction                                                      *)

\* the bindings of a port map that name a numeric host port, as
\* <<entry, binding>> positions
UsableBindings(ports) ==
    {p \in UNION {{<<i, j>> : j \in 1..Len(ports[i][2])} : i \in 1..Len(ports)} :
        /\ "HostPort" \in ports[p[1]][2][p[2]].has
        /\ AllDigits(ports[p[1]][2][p[2]].HostPort)}

\* the bindings of a port map that lack a host port or name a non-numeric one
UnusableBindings(ports) ==
    {p \in UNION {{<<i, j>> : j \in 1..Len(ports[i][2])} : i \in 1..Len(ports)} :
        p \notin UsableBindings(ports)}

\* C22: a binding whose host port is missing or non-numeric is skipped
\* without error: every answered record that holds the required fields
\* yields its workload, and the workload has exactly one mapping for each
\* binding that names a numeric host port, carrying that port.
C22_BadBindingsSkipped ==
    /\ \A i \in 1..Len(InspectedOk) :
          LET ports == InspectedOk[i].data[2].Ports
              c == containers[i]
          IN  /\ Len(c.ports) = Cardinality(UsableBindings(ports))
              /\ \A p \in UsableBindings(ports) :
                    \E k \in 1..Len(c.ports) :
                        /\ c.ports[k].host_port =
                               DigitsVal(ports[p[1]][2][p[2]].HostPort)
                        /\ PyStr(c.ports[k].container_port)
                               \o <<"/">> \o c.ports[k].protocol
                               = ports[p[1]][1]
    /\ (pc = "inspect" /\ pos <= Len(container_ids)
            /\ StripLine(container_ids[pos]) # <<>>) =>
          \A answer \in InspectAnswers(StripLine(container_ids[pos])) :
              (/\ answer.exit_code = 0
               /\ answer.json_ok
               /\ RequiredKeys \subseteq answer.data.keys) =>
                  InspectContainer(answer).ok

C22_Witness ==
    /\ pc = "return"
    /\ info.connection_status = "success"
    /\ \E i \in 1..Len(InspectedOk) :
          /\ UnusableBindings(InspectedOk[i].data[2].Ports) # {}
          /\ Len(containers[i].ports) = 1
          /\ containers[i].ports[1].host_port = 5353
          /\ \E s \in 1..Len(info.docker_stacks) :
                \E m \in 1..Len(info.docker_stacks[s].containers) :
                    info.docker_stacks[s].containers[m] = containers[i]


-----------------------------------------------------------------------------
(* Order of the commands of one host scan                                   *)

\* the answers the remote host has given to commands, in order
Answers == SelectSeq(env, LAMBDA e : e.op \in {"probe", "inventory", "inspect"})

\* the identifiers of the inventory answer: its lines that hold anything
\* but spaces, in the order listed
ListedIds ==
    LET inv == SelectSeq(env, LAMBDA e : e.op = "inventory" /\ e.res = "exit 0")
    IN  IF inv = <<>> THEN <<>>
        ELSE SelectSeq(inv[1].data,
                       LAMBDA l : \E i \in 1..Len(l) : l[i] # " ")

\* the commands of a scan that runs to its end
ScanCommands ==
    <<Cmd("sudo docker --version", <<>>),
      Cmd("sudo docker ps --format '{{.ID}}'", <<>>)>>
    \o [k \in 1..Len(ListedIds) |-> Cmd("sudo docker inspect", ListedIds[k])]

\* C23: the commands of a host scan are the probe, then the inventory, then
\* one inspect per listed identifier in listing order; each has been
\* answered before the next is issued, and a scan that succeeds has issued
\* them all.
C23_CommandsInOrder ==
    /\ Len(cmds) <= Len(ScanCommands)
    /\ cmds = SubSeq(ScanCommands, 1, Len(cmds))
    /\ Len(Answers) = Len(cmds)
    /\ \A k \in 1..Len(Answers) :
          Answers[k].op = IF k = 1 THEN "probe"
                          ELSE IF k = 2 THEN "inventory" ELSE "inspect"
    /\ (pc \in {"exit", "catch", "return"}
            /\ info.connection_status = "success"
            /\ EnvHas("inventory", "exit 0")) =>
          cmds = ScanCommands

C23_Witness ==
    /\ pc = "return"
    /\ info.connection_status = "success"
    /\ Len(cmds) = 4
    /\ cmds[3].arg = ListedId(1)
    /\ cmds[4].arg = ListedId(2)
    /\ Len(SelectSeq(env, LAMBDA e : e.op = "inventory")[1].data) = 3


-----------------------------------------------------------------------------
(* Partition of the inspected workloads                                     *)

\* the places of a record that hold container c: <<s, m>> for member m of
\* group s, <<0, m>> for place m of the ungrouped list
PlacesOf(si, c) ==
    {p \in UNION {{<<s, m>> : m \in 1..Len(si.docker_stacks[s].containers)} :
                     s \in 1..Len(si.docker_stacks)} :
        si.docker_stacks[p[1]].containers[p[2]] = c}
    \cup {<<0, m>> : m \in {k \in 1..Len(si.standalone_containers) :
                               si.standalone_containers[k] = c}}

\* C26: after a successful discovery every successfully inspected workload
\* is held at exactly one place of the record, a group or the ungrouped
\* list; no group is empty, no two groups share a name, and the record's
\* total count is the number of successfully inspected workloads.
C26_WorkloadsPartitioned ==
    (pc \in {"exit", "catch", "return"} /\ info.connection_status = "success") =>
        /\ \A i \in 1..Len(InspectedOk) :
              Cardinality(PlacesOf(info,
                  _parse_container_data(InspectedOk[i].data[2]).container[1])) = 1
        /\ \A s \in 1..Len(info.docker_stacks) :
              Len(info.docker_stacks[s].containers) >= 1
        /\ \A s, t \in 1..Len(info.docker_stacks) :
              s # t => info.docker_stacks[s].project_name
                           # info.docker_stacks[t].project_name
        /\ total_containers(info) = Len(InspectedOk)

C26_Witness ==
    /\ pc = "return"
    /\ info.connection_status = "success"
    /\ Len(InspectedOk) = 3
    /\ Len(info.docker_stacks) = 1
    /\ Len(info.docker_stacks[1].containers) = 2
    /\ Len(info.standalone_containers) = 1


-----------------------------------------------------------------------------
(* The record a host scan returns                                           *)

FinalStatuses == {"success", "ssh_failed", "no_docker", "failed"}

\* the records of the scans that have returned
Returned ==
    {server_info_list[i] : i \in 1..Len(server_info_list)}
    \cup (IF pc = "return" THEN {info} ELSE {})

-----------------------------------------------------------------------------
(* An inventory command that fails                                          *)

\* the probe of the running scan exited 0 and its inventory exited non-zero
InventoryFailed ==
    /\ EnvHas("probe", "exit 0")
    /\ EnvHas("inventory", "exit nonzero")

\* the record of a scan that found the host running nothing
NothingRunning(creds) ==
    [ServerInfo(creds) EXCEPT !.connection_status = "success"]

\* C28: when the probe succeeds and the inventory command exits non-zero,
\* no error is raised and nothing is inspected, whatever the command
\* printed; the scan returns the record of a host that runs no workloads,
\* with outcome success.
C28_InventoryFailureIsSuccess ==
    InventoryFailed =>
        /\ exc = NoException
        /\ container_ids = <<>>
        /\ Len(cmds) = 2
        /\ pc = "return" => info = NothingRunning(servers[idx])

C28_Witness ==
    /\ pc = "return"
    /\ InventoryFailed
    /\ \E i \in 1..Len(env) :
          env[i].op = "inventory" /\ env[i].data = <<ListedId(1)>>
    /\ info.connection_status = "success"
    /\ total_containers(info) = 0


-----------------------------------------------------------------------------
(* Synthesis of hosts and workloads whose names hold punctuation            *)

H_DASH == <<"h", "-", "1">>
H_DOT == <<"h", ".", "1">>
AB_DASH == <<"a", "-", "b">>
AB_UNDER == <<"a", "_", "b">>
AB == <<"a", "b">>

\* hostnames and container names as they are configured and as docker
\* allows them
HostNames == {H1, H_DASH, H_DOT}
ContainerNames == {AB, AB_DASH, AB_UNDER}

\* the inspect record of the container called name
NamedRecord(id, name, labels, ports) ==
    [InspectRecord(RequiredKeys, id, labels, ports)
        EXCEPT !.Name = <<"/">> \o name]

\* two containers, the first publishing a port; docker keeps the names of
\* the containers of one host distinct
NamedContainers ==
    {<<_parse_container_data(
           NamedRecord(ListedId(1), n[1], l[1], PORTS_WEB)).container[1],
       _parse_container_data(
           NamedRecord(ListedId(2), n[2], l[2], p)).container[1]>> :
        n \in {m \in ContainerNames \X ContainerNames : m[1] # m[2]},
        l \in {<<>>, <<{<<COMPOSE_PROJECT, WEB>>}>>}
                 \X {<<>>, <<{<<COMPOSE_PROJECT, WEB>>}>>},
        p \in {PORTS_NONE, PORTS_WEB}}

\* one or two hosts with different hostnames, found to run the same
\* containers
NamedScans ==
    {[i \in 1..Len(hs) |->
         Discovered(ServerCredentials(hs[i], ROOT, "key", <<KEY_FILE>>,
                                      SshPort), cs)] :
        hs \in {h \in UNION {[1..n -> HostNames] : n \in 1..2} :
                   \A i, j \in 1..Len(h) : i # j => h[i] # h[j]},
        cs \in NamedContainers}

InitNames ==
    /\ server_info_list \in NamedScans
    /\ servers = [i \in 1..Len(server_info_list) |->
                     server_info_list[i].credentials]
    /\ passwords = {}
    /\ idx = Len(server_info_list) + 1
    /\ pc = "done"
    /\ info = server_info_list[Len(server_info_list)]
    /\ client = "None"
    /\ exc = NoException
    /\ entered = FALSE
    /\ closes = 0
    /\ cmds = <<>>
    /\ container_ids = <<>>
    /\ pos = 1
    /\ containers = <<>>
    /\ ssh = NoManager
    /\ env = <<>>
    /\ env_hist = <<>>
    /\ GenInit
    /\ NestInit
    /\ CfgInit

\* run(), line 74: the diagram of the scan result
NextNames == Generate(server_info_list)

SpecNames == InitNames /\ [][NextNames]_vars

\* the node lines of d
NodeLines(d) == {i \in 1..Len(d) : d[i].kind = "node"}

\* C25: the hosts of a list have different hostnames and the workloads of
\* a host different names, so every node line of the diagram draws another
\* entity: no two node lines carry the same identifier.
C25_DistinctIdentifiers ==
    diagram # <<>> =>
        \A i, j \in NodeLines(diagram) :
            i # j => diagram[i].a # diagram[j].a


-----------------------------------------------------------------------------
(* Edges of the diagram                                                     *)

\* the edge lines of d that end in node id
Incoming(d, id) == {i \in 1..Len(d) : d[i].kind = "edge" /\ d[i].b = id}

\* the nodes of d labelled label that node parent has an edge to
ChildrenLabelled(d, parent, label) ==
    {d[i].a : i \in {n \in NodesLabelled(d, label) :
                        \E e \in Incoming(d, d[n].a) : d[e].a = parent}}

StackLabel(stack) == <<ICON_STACK, " ", "Stack:", " ">> \o stack.project_name

WorkloadLabel(c, is_standalone) ==
    <<IF is_standalone THEN ICON_STANDALONE ELSE ICON_STACK_CONTAINER, " ">>
        \o _sanitize_text(c.name) \o <<"<br/><small>">>
        \o _sanitize_text(c.image) \o <<"</small>">>

\* the style classes a node's only parent may have, by the node's own class
ParentClasses(class) ==
    CASE class = STACK -> {SERVER}
      [] class = CONTAINER -> {STACK}
      [] class = STANDALONE -> {SERVER}
      [] class = PORT -> {CONTAINER, STANDALONE}
      [] OTHER -> {}

-----------------------------------------------------------------------------
(* Calls of generate that overlap: two threads call it on the generator of  *)
(* the process. A thread may be switched out between two passes of the      *)
(* loop over servers.                                                       *)

\* the lists the threads hand over: a failed and a reachable host; the
\* same hosts with a third that failed; another reachable host
OverlapInputs ==
    {<<Unreachable(LiteralHost)>> \o server_info_list,
     <<Unreachable(LiteralHost)>> \o server_info_list
         \o <<Unreachable(BackupHost)>>,
     <<Discovered(PasswordHost, server_info_list[1].standalone_containers)>>}

InitOverlap ==
    /\ servers = <<KeyHost>>
    /\ passwords = {}
    /\ server_info_list \in {ScanResult(<<>>), ScanResult(<<E443>>)}
    /\ idx = 2
    /\ pc = "done"
    /\ info = server_info_list[1]
    /\ client = "None"
    /\ exc = NoException
    /\ entered = FALSE
    /\ closes = 0
    /\ cmds = <<>>
    /\ container_ids = <<>>
    /\ pos = 1
    /\ containers = <<>>
    /\ ssh = NoManager
    /\ env = <<>>
    /\ env_hist = <<>>
    /\ GenInit
    /\ NestInit
    /\ CfgInit

\* generate, lines 30-37: the counter and the map of the generator are
\* reset, the list of lines is started
CallEnter(t, srvs) ==
    /\ calls[t].st = "idle"
    /\ node_counter' = 0
    /\ node_map' = <<>>
    /\ calls' = [calls EXCEPT ![t] =
                    Frame("loop", srvs, 1,
                          <<Line("text", <<"(fence)", "mermaid">>, <<>>),
                            Line("text", <<"graph LR">>, <<>>)>>
                          \o _generate_styles)]
    /\ UNCHANGED <<diagram, report, last_input, report_input, first_diagram,
                   resynthesized>>
    /\ UNCHANGED <<scanvars, cfgvars, nestvars>>

\* generate, lines 39-63: one pass of the loop over servers
CallServer(t) ==
    /\ calls[t].st = "loop"
    /\ calls[t].k <= Len(calls[t].servers)
    /\ \E r \in {GenServer(Gen(node_counter, node_map),
                           calls[t].servers[calls[t].k])} :
           /\ node_counter' = r.g.node_counter
           /\ node_map' = r.g.node_map
           /\ calls' = [calls EXCEPT ![t].k = @ + 1,
                                     ![t].lines = @ \o r.lines]
    /\ UNCHANGED <<diagram, report, last_input, report_input, first_diagram,
                   resynthesized>>
    /\ UNCHANGED <<scanvars, cfgvars, nestvars>>

\* generate, lines 65-66: the call returns its lines
CallReturn(t) ==
    /\ calls[t].st = "loop"
    /\ calls[t].k > Len(calls[t].servers)
    /\ \E lines \in {calls[t].lines \o <<Line("text", <<"(fence)">>, <<>>)>>} :
           /\ calls' = [calls EXCEPT ![t].st = "returned", ![t].lines = lines]
           /\ diagram' = lines
           /\ first_diagram' =
                  IF calls[t].servers \in DOMAIN first_diagram
                  THEN first_diagram
                  ELSE first_diagram @@ (calls[t].servers :> lines)
    /\ resynthesized' =
           IF calls[t].servers \in DOMAIN first_diagram
                /\ last_input # calls[t].servers
           THEN resynthesized \cup {calls[t].servers}
           ELSE resynthesized
    /\ last_input' = calls[t].servers
    /\ UNCHANGED <<node_counter, node_map, report, report_input>>
    /\ UNCHANGED <<scanvars, cfgvars, nestvars>>

NextOverlap ==
    \/ \E t \in Threads, srvs \in OverlapInputs : CallEnter(t, srvs)
    \/ \E t \in Threads : CallServer(t)
    \/ \E t \in Threads : CallReturn(t)

SpecOverlap == InitOverlap /\ [][NextOverlap]_vars

\* C21: the identifiers of a generate call are its own: a call that
\* overlaps with another call on the same generator returns a diagram with
\* the same nodes, edges and labels, up to a renaming of the identifiers,
\* as the diagram generate returns for its list when it runs alone.
C21_OverlappingCallsIsomorphic ==
    \A t \in Threads :
        calls[t].st = "returned" =>
            Graph(calls[t].lines)
                = Graph(generate(Gen(0, <<>>), calls[t].servers).lines)


-----------------------------------------------------------------------------
(* connect() scopes that nest: connect() is entered on a manager while a    *)
(* scope of that manager is open, by the caller or through test_connection. *)
(* conns[i] is the i-th SSHClient the manager created; client names the one *)
(* self._client holds; scopes lists, innermost last, the client each open   *)
(* scope created.                                                           *)

ClientNames == <<"client", "client2", "client3", "client4">>

\* the SSHClient called name
ClientIndex(name) ==
    CHOOSE i \in 1..Len(ClientNames) : ClientNames[i] = name

Conn(connected, closed) == [connected |-> connected, closes |-> closed]

\* connect(), lines 109-112: the finally clause closes the client that
\* self._client holds and forgets it; [client, conns]
NestedFinally(c, cs) ==
    IF c # "None"
    THEN [client |-> "None",
          conns |-> [cs EXCEPT ![ClientIndex(c)].closes = @ + 1]]
    ELSE [client |-> c, conns |-> cs]

\* `with ssh.connect():` is entered, lines 52-89, whether or not a scope is
\* open: a new client replaces the one self._client holds
NestedEnter ==
    /\ pc \in {"idle", "body"}
    /\ Len(conns) < MaxCalls
    /\ entered' = TRUE
    /\ \E new \in {ClientNames[Len(conns) + 1]} :
       IF ConnectAuth(ssh) = "none"
       THEN \E f \in {NestedFinally(new, Append(conns, Conn(FALSE, 0)))} :
            /\ exc' = ConnectExcept(ssh,
                          Raise("SSHConnectionError",
                                Msg("No authentication method provided.",
                                    <<>>, <<>>)))
            /\ env' = Append(env, Ev("enter", "refused", <<>>))
            /\ client' = f.client
            /\ conns' = f.conns
            /\ closes' = closes + 1
            /\ UNCHANGED <<scopes, pc>>
       ELSE \/ /\ exc' = NoException
               /\ env' = Append(env, Ev("connect", "ok", <<ConnectAuth(ssh)>>))
               /\ client' = new
               /\ conns' = Append(conns, Conn(TRUE, 0))
               /\ scopes' = Append(scopes, new)
               /\ closes' = closes
               /\ pc' = "body"
            \/ \E t \in ConnectErrors(ssh) :
               \E f \in {NestedFinally(new, Append(conns, Conn(FALSE, 0)))} :
               /\ exc' = ConnectExcept(ssh, Raise(t, Msg(t, <<>>, <<>>)))
               /\ env' = Append(env,
                            IF t = "FileNotFoundError"
                            THEN Ev("enter", t, <<>>)
                            ELSE Ev("connect", t, <<ConnectAuth(ssh)>>))
               /\ client' = f.client
               /\ conns' = f.conns
               /\ closes' = closes + 1
               /\ UNCHANGED <<scopes, pc>>
    /\ UNCHANGED cmds
    /\ UNCHANGED <<restvars, genvars, cfgvars>>

\* ssh.execute_command(command), inside the scopes or outside of any
NestedExecute ==
    /\ pc \in {"idle", "body"}
    /\ Len(cmds) < MaxCalls
    /\ \E command \in SessionCommands, fails \in BOOLEAN :
       \E r \in {execute_command(ssh, client, command, fails)} :
           /\ exc' = r.exc
           /\ cmds' = cmds \o r.ran
    /\ UNCHANGED <<pc, client, entered, closes, env>>
    /\ UNCHANGED <<restvars, genvars, cfgvars, nestvars>>

\* the body of the innermost scope ends, or raises: connect(), lines 91-112
NestedLeave ==
    /\ pc = "body"
    /\ \E e \in {NoException, exc, Raise("MemoryError", UNEXPECTED)} :
           exc' = ConnectExcept(ssh, e)
    /\ \E f \in {NestedFinally(client, conns)} :
           /\ client' = f.client
           /\ conns' = f.conns
    /\ closes' = IF client # "None" THEN closes + 1 ELSE closes
    /\ scopes' = SubSeq(scopes, 1, Len(scopes) - 1)
    /\ pc' = IF Len(scopes) = 1 THEN "idle" ELSE "body"
    /\ UNCHANGED <<entered, cmds, env>>
    /\ UNCHANGED <<restvars, genvars, cfgvars>>

ECHO_TEST == Cmd("echo test", <<>>)

\* test_connection(), lines 153-158: a scope is entered, echo test is run in
\* it, the scope is left, and an SSHConnectionError is answered by False;
\* connects tells whether the connection is made, fails whether the command
\* fails
TestConnection ==
    /\ pc \in {"idle", "body"}
    /\ Len(conns) < MaxCalls
    /\ Len(cmds) < MaxCalls
    /\ entered' = TRUE
    /\ \E new \in {ClientNames[Len(conns) + 1]} :
       \E connects \in (IF ConnectAuth(ssh) = "none" THEN {FALSE} ELSE BOOLEAN) :
       \E fails \in (IF connects THEN BOOLEAN ELSE {FALSE}) :
       \E f \in {NestedFinally(new, Append(conns, Conn(connects, 0)))} :
           /\ client' = f.client
           /\ conns' = f.conns
           /\ cmds' = IF connects
                      THEN cmds \o execute_command(ssh, new, ECHO_TEST,
                                                   fails).ran
                      ELSE cmds
           /\ env' = Append(env,
                        IF connects
                        THEN Ev("connect", "ok", <<ConnectAuth(ssh)>>)
                        ELSE IF ConnectAuth(ssh) = "none"
                        THEN Ev("enter", "refused", <<>>)
                        ELSE Ev("connect", "SSHException",
                                <<ConnectAuth(ssh)>>))
    /\ exc' = NoException
    /\ closes' = closes + 1
    /\ UNCHANGED <<pc, scopes>>
    /\ UNCHANGED <<restvars, genvars, cfgvars>>

NextNested ==
    \/ NestedEnter
    \/ NestedExecute
    \/ NestedLeave
    \/ TestConnection

SpecNested == InitSession /\ [][NextNested]_vars

\* the clients that are connected and were never closed
OpenConns == {i \in 1..Len(conns) : conns[i].connected /\ conns[i].closes = 0}

\* C29: while scopes are open, nested or not, the connection of every open
\* scope is open and the manager can run commands; no client is closed
\* twice and, once all scopes are left, every connection that was made has
\* been closed once; and the manager always holds the one client that is
\* open, so that none is lost.
C29_NestedScopesKeepConnections ==
    /\ \A k \in 1..Len(scopes) : ClientIndex(scopes[k]) \in OpenConns
    /\ scopes # <<>> => client # "None"
    /\ \A i \in 1..Len(conns) : conns[i].closes <= 1
    /\ scopes = <<>> =>
          \A i \in 1..Len(conns) : conns[i].connected => conns[i].closes = 1
    /\ \A i \in OpenConns : client = ClientNames[i]

-----------------------------------------------------------------------------
(* The template file of generate_template read back by load_servers.        *)

\* the file holds the template and load_servers has read it
TemplateLoaded == store = <<generate_template>> /\ loaded # <<>>

\* C30: the file written by generate_template is loadable: load_servers on
\* it raises nothing and returns one credential record per template entry
\* (the key, the pass and the agent example), each with the hostname, the
\* username and the port written in the template.
C30_TemplateLoadable ==
    TemplateLoaded =>
        /\ loaded[1].exc = NoException
        /\ ~loaded[1].none
        /\ Len(loaded[1].value) = Len(yaml_safe_load(generate_template))
        /\ \A i \in 1..Len(loaded[1].value) :
               \E e \in {yaml_safe_load(generate_template)[i]} :
                   /\ loaded[1].value[i].hostname = Item(e, "hostname").s
                   /\ loaded[1].value[i].username = Item(e, "username").s
                   /\ loaded[1].value[i].port = Item(e, "port").n

=============================================================================
